---------------------------- MODULE Spec2Model ----------------------------
(***************************************************************************)
(* A model of gdocs-cli: the account resolver, the request builders, the   *)
(* content and table commands with the remote calls they issue, the        *)
(* document tree readers, the service functions with their retry wrapper,  *)
(* and the require_auth wrapper with the credential store.                 *)
(*                                                                         *)
(* Python values are represented as follows.  An optional value (None or a *)
(* value) is a sequence: <<>> is None and <<v>> is the value v.  A dict is *)
(* a record (a function from its keys).  A list is a sequence.  A str is a *)
(* string; len and + on str are Len and \o.                                *)
(***************************************************************************)
EXTENDS Integers, Sequences, FiniteSets, TLC

VARIABLES
    \* ---- account store and the inputs of resolve_account
    accounts,          \* list_accounts(): the configured accounts, in insertion order
    defaultAccount,    \* get_default_account(): optional account
    envAccount,        \* os.environ.get("GDOCS_ACCOUNT"): optional string
    explicitAccount,   \* the explicit_account argument: optional string
    resolved,          \* what resolve_account returned or raised
    \* ---- request builders
    textStyle,         \* the TextStyle given to update_text_style_request
    paragraphStyle,    \* the ParagraphStyle given to update_paragraph_style_request
    styleRequest,      \* the descriptor the builder returned
    \* ---- one command invocation (one process) and the remote service
    doc,               \* the remote document body: a sequence of structural elements
    cmd,               \* the arguments of the running command
    pc,                \* the position of the running command
    calls,             \* the remote calls issued by this invocation, in order
    locals,            \* the command's local variables
    outcome,           \* what the process printed and its exit status
    \* ---- document tree readers
    bodyContent,       \* body.content of a documents.get response
    projection,        \* what a reader returned for it
    \* ---- one service function and _execute_with_retry
    service,           \* the service function called and its arguments
    step,              \* the remote request the function is at (1-based)
    servicePc,         \* position inside the function and the retry loop
    attempt,           \* the loop variable of _execute_with_retry
    executed,          \* statuses request.execute() ended with, this request
    slept,             \* the time.sleep delays, this request
    requested,         \* the requests the function has finished, in order
    raised,            \* what the function raised, or that it returned
    \* ---- one command under require_auth with the credential store
    credentials,       \* the accounts that have a stored credential
    jsonMode,          \* utils/output.py _json_mode
    session,           \* the command run and the way its body ends
    sessionPc,         \* position of the process
    printed,           \* what the process wrote, in order
    exitStatus,        \* the exit status of the process
    issued,            \* the service functions the command body called, in order
    consent,           \* the answer to the confirmation prompt, if it was shown
    \* ---- the credential loads of one command
    keyring,           \* the stored credential of every account, if any
    authPc,            \* position of the process: gate, body, exited
    loads,             \* the accounts the body's get_credentials calls loaded for
    remote,            \* the accounts the body's remote calls ran as
    lastLoad,          \* the last get_credentials call: store before, and what it did
    authOutcome        \* how the process ended

resolverVars == <<accounts, defaultAccount, envAccount, explicitAccount, resolved>>
styleVars == <<textStyle, paragraphStyle, styleRequest>>
cmdVars == <<doc, cmd, pc, calls, locals, outcome>>
readVars == <<bodyContent, projection>>
serviceVars == <<service, step, servicePc, attempt, executed, slept, requested, raised>>
sessionVars ==
    <<credentials, jsonMode, session, sessionPc, printed, exitStatus, issued, consent>>
authVars == <<keyring, authPc, loads, remote, lastLoad, authOutcome>>
vars == <<resolverVars, styleVars, cmdVars, readVars, serviceVars, sessionVars, authVars>>

-----------------------------------------------------------------------------
(* Bounds of the model. *)

MaxAccounts == 2
MaxElements == 2

-----------------------------------------------------------------------------
(* Python helpers. *)

None == <<>>
Some(v) == <<v>>

\* Python truthiness of an optional str: None and "" are falsy.
Truthy(o) == o # None /\ o[1] # ""

Range(s) == {s[i] : i \in 1..Len(s)}

RECURSIVE Join(_, _)
\* sep.join(parts)
Join(parts, sep) ==
    IF parts = <<>> THEN ""
    ELSE IF Len(parts) = 1 THEN parts[1]
    ELSE parts[1] \o sep \o Join(Tail(parts), sep)

RECURSIVE Concat(_)
\* "".join(parts), and the concatenation of a list of lists
Concat(parts) == IF parts = <<>> THEN <<>> ELSE parts[1] \o Concat(Tail(parts))

\* The sequences without repetition over S of length at most n.
DistinctSeqs(S, n) ==
    UNION {{s \in [1..k -> S] : \A i, j \in 1..k : s[i] = s[j] => i = j} : k \in 0..n}

-----------------------------------------------------------------------------
(* services/auth.py: resolve_account *)

AccountNames == {"a@x.org", "b@x.org", "c@x.org"}

Returned(account) ==
    [kind |-> "returned", account |-> account, available |-> <<>>]
AccountNotFoundError(account, available) ==
    [kind |-> "AccountNotFoundError", account |-> account, available |-> available]
NoAccountConfiguredError ==
    [kind |-> "NoAccountConfiguredError", account |-> "", available |-> <<>>]
NotResolved == [kind |-> "pending", account |-> "", available |-> <<>>]

\* A slip: an absent explicit account falls through to the rest of the chain.
resolve_account_fallthrough(accts, dflt, env, explicit) ==
    IF Truthy(explicit) /\ explicit[1] \in Range(accts) THEN Returned(explicit[1])
    ELSE IF Truthy(env) /\ env[1] \in Range(accts) THEN Returned(env[1])
    ELSE IF Truthy(dflt) /\ dflt[1] \in Range(accts) THEN Returned(dflt[1])
    ELSE IF accts # <<>> THEN Returned(accts[1])
    ELSE NoAccountConfiguredError

\* A slip: the default is returned without looking it up in the list.
resolve_account_stale_default(accts, dflt, env, explicit) ==
    IF Truthy(explicit) THEN
        IF explicit[1] \notin Range(accts)
        THEN AccountNotFoundError(explicit[1], accts)
        ELSE Returned(explicit[1])
    ELSE IF Truthy(env) THEN
        IF env[1] \notin Range(accts)
        THEN AccountNotFoundError(env[1], accts)
        ELSE Returned(env[1])
    ELSE IF Truthy(dflt) THEN Returned(dflt[1])
    ELSE IF accts # <<>> THEN Returned(accts[1])
    ELSE NoAccountConfiguredError

resolve_account(accts, dflt, env, explicit) ==
    IF Truthy(explicit) THEN
        IF explicit[1] \notin Range(accts)
        THEN AccountNotFoundError(explicit[1], accts)
        ELSE Returned(explicit[1])
    ELSE IF Truthy(env) THEN
        IF env[1] \notin Range(accts)
        THEN AccountNotFoundError(env[1], accts)
        ELSE Returned(env[1])
    ELSE IF Truthy(dflt) /\ dflt[1] \in Range(accts) THEN Returned(dflt[1])
    ELSE IF accts # <<>> THEN Returned(accts[1])
    ELSE NoAccountConfiguredError

OptionalNames == {None, Some("")} \cup {Some(a) : a \in AccountNames}

InitResolver ==
    /\ accounts \in DistinctSeqs(AccountNames, MaxAccounts)
    /\ defaultAccount \in {None} \cup {Some(a) : a \in AccountNames}
    /\ envAccount \in OptionalNames
    /\ explicitAccount \in OptionalNames
    /\ resolved = NotResolved

IdleResolver ==
    /\ accounts = <<>>
    /\ defaultAccount = None
    /\ envAccount = None
    /\ explicitAccount = None
    /\ resolved = NotResolved

ResolveAccount ==
    /\ resolved = NotResolved
    /\ resolved' = resolve_account(accounts, defaultAccount, envAccount, explicitAccount)
    /\ UNCHANGED <<accounts, defaultAccount, envAccount, explicitAccount>>
    /\ UNCHANGED <<styleVars, cmdVars, readVars, serviceVars, sessionVars, authVars>>

-----------------------------------------------------------------------------
(* models/element.py: NamedStyleType, Alignment, TextStyle, ParagraphStyle *)

\* NamedStyleType: the member names, which are also the member values.
NamedStyleType ==
    {"NORMAL_TEXT", "TITLE", "SUBTITLE", "HEADING_1", "HEADING_2", "HEADING_3",
     "HEADING_4", "HEADING_5", "HEADING_6"}

Alignment == {"START", "CENTER", "END", "JUSTIFIED"}

\* TextStyle(): every field at its default.
DefaultTextStyle ==
    [bold |-> FALSE, italic |-> FALSE, underline |-> FALSE, strikethrough |-> FALSE,
     font_size |-> None, font_family |-> None, foreground_color |-> None,
     background_color |-> None, link_url |-> None]

\* ParagraphStyle(): every field at its default.  line_spacing is kept in
\* hundredths (1.0 is 100), the other magnitudes in whole points.
DefaultParagraphStyle ==
    [named_style |-> "NORMAL_TEXT", alignment |-> "START", line_spacing |-> 100,
     space_above_pt |-> 0, space_below_pt |-> 0, indent_first_line_pt |-> 0]

-----------------------------------------------------------------------------
(* utils/request_builder.py *)

\* A str of hexadecimal digits is a sequence of one-character strings here,
\* so that lstrip and slicing can be computed.
HexValue(c) ==
    CASE c = "0" -> 0 [] c = "1" -> 1 [] c = "2" -> 2 [] c = "3" -> 3
      [] c = "4" -> 4 [] c = "5" -> 5 [] c = "6" -> 6 [] c = "7" -> 7
      [] c = "8" -> 8 [] c = "9" -> 9 [] c = "A" -> 10 [] c = "B" -> 11
      [] c = "C" -> 12 [] c = "D" -> 13 [] c = "E" -> 14 [] c = "F" -> 15

RECURSIVE LStrip(_, _)
\* s.lstrip(c)
LStrip(s, c) == IF s # <<>> /\ s[1] = c THEN LStrip(Tail(s), c) ELSE s

\* int(s[i:i+2], 16) / 255.0, kept as the fraction num / den
Channel(s, i) == [num |-> 16 * HexValue(s[i + 1]) + HexValue(s[i + 2]), den |-> 255]

_parse_color(hex_color) ==
    LET h == LStrip(hex_color, "#")
    IN  [color |-> [rgbColor |-> [red |-> Channel(h, 0),
                                  green |-> Channel(h, 2),
                                  blue |-> Channel(h, 4)]]]

\* {"startIndex": ..., "endIndex": ...}, with segmentId when segment_id is truthy
RangeSpec(start_index, end_index, segment_id) ==
    IF Truthy(segment_id)
    THEN [startIndex |-> start_index, endIndex |-> end_index, segmentId |-> segment_id[1]]
    ELSE [startIndex |-> start_index, endIndex |-> end_index]

insert_text_request(text, index, segment_id) ==
    [insertText |->
        [location |-> IF Truthy(segment_id)
                      THEN [index |-> index, segmentId |-> segment_id[1]]
                      ELSE [index |-> index],
         text |-> text]]

\* A slip: the descriptor always asks for a case-sensitive match.
replace_all_text_request_case_sensitive(find_text, replace_text, match_case) ==
    [replaceAllText |->
        [containsText |-> [text |-> find_text, matchCase |-> TRUE],
         replaceText |-> replace_text]]

replace_all_text_request(find_text, replace_text, match_case) ==
    [replaceAllText |->
        [containsText |-> [text |-> find_text, matchCase |-> match_case],
         replaceText |-> replace_text]]

insert_text_at_end_request(text, segment_id) ==
    [insertText |->
        [endOfSegmentLocation |-> IF Truthy(segment_id)
                                  THEN [segmentId |-> segment_id[1]]
                                  ELSE <<>>,
         text |-> text]]

\* The keys update_text_style_request can emit, in the order it tests them.
TextStyleKeys ==
    <<"bold", "italic", "underline", "strikethrough", "fontSize",
      "weightedFontFamily", "link", "foregroundColor", "backgroundColor">>

\* The `if style.<field>:` tests of update_text_style_request (Python truthiness:
\* False, None, 0 and the empty str are falsy).
TextStyleTest(style, key) ==
    CASE key = "bold" -> style.bold
      [] key = "italic" -> style.italic
      [] key = "underline" -> style.underline
      [] key = "strikethrough" -> style.strikethrough
      [] key = "fontSize" -> style.font_size # None /\ style.font_size[1] # 0
      [] key = "weightedFontFamily" -> Truthy(style.font_family)
      [] key = "link" -> Truthy(style.link_url)
      [] key = "foregroundColor" ->
            style.foreground_color # None /\ style.foreground_color[1] # <<>>
      [] key = "backgroundColor" ->
            style.background_color # None /\ style.background_color[1] # <<>>

TextStyleValue(style, key) ==
    CASE key \in {"bold", "italic", "underline", "strikethrough"} -> TRUE
      [] key = "fontSize" -> [magnitude |-> style.font_size[1], unit |-> "PT"]
      [] key = "weightedFontFamily" -> [fontFamily |-> style.font_family[1]]
      [] key = "link" -> [url |-> style.link_url[1]]
      [] key = "foregroundColor" -> _parse_color(style.foreground_color[1])
      [] key = "backgroundColor" -> _parse_color(style.background_color[1])

update_text_style_request(start_index, end_index, style, segment_id) ==
    LET Test(key) == TextStyleTest(style, key)
        fields == SelectSeq(TextStyleKeys, Test)
        text_style == [key \in Range(fields) |-> TextStyleValue(style, key)]
    IN  [updateTextStyle |->
            [range |-> RangeSpec(start_index, end_index, segment_id),
             textStyle |-> text_style,
             fields |-> Join(fields, ",")]]

\* The keys update_paragraph_style_request can emit, in the order it adds them.
ParagraphStyleKeys ==
    <<"namedStyleType", "alignment", "spaceAbove", "spaceBelow", "indentFirstLine">>

\* namedStyleType is put in unconditionally; the others are tested.
ParagraphStyleTest(style, key) ==
    CASE key = "namedStyleType" -> TRUE
      [] key = "alignment" -> style.alignment # "START"
      [] key = "spaceAbove" -> style.space_above_pt > 0
      [] key = "spaceBelow" -> style.space_below_pt > 0
      [] key = "indentFirstLine" -> style.indent_first_line_pt > 0

ParagraphStyleValue(style, key) ==
    CASE key = "namedStyleType" -> style.named_style
      [] key = "alignment" -> style.alignment
      [] key = "spaceAbove" -> [magnitude |-> style.space_above_pt, unit |-> "PT"]
      [] key = "spaceBelow" -> [magnitude |-> style.space_below_pt, unit |-> "PT"]
      [] key = "indentFirstLine" ->
            [magnitude |-> style.indent_first_line_pt, unit |-> "PT"]

update_paragraph_style_request(start_index, end_index, style, segment_id) ==
    LET Test(key) == ParagraphStyleTest(style, key)
        fields == SelectSeq(ParagraphStyleKeys, Test)
        paragraph_style == [key \in Range(fields) |-> ParagraphStyleValue(style, key)]
    IN  [updateParagraphStyle |->
            [range |-> RangeSpec(start_index, end_index, segment_id),
             paragraphStyle |-> paragraph_style,
             fields |-> Join(fields, ",")]]

apply_named_style_request(start_index, end_index, named_style, segment_id) ==
    [updateParagraphStyle |->
        [range |-> RangeSpec(start_index, end_index, segment_id),
         paragraphStyle |-> [namedStyleType |-> named_style],
         fields |-> "namedStyleType"]]

TableCellLocation(table_start_index, row_index, column_index) ==
    [tableStartLocation |-> [index |-> table_start_index],
     rowIndex |-> row_index,
     columnIndex |-> column_index]

insert_table_row_request(table_start_index, row_index, insert_below) ==
    [insertTableRow |->
        [tableCellLocation |-> TableCellLocation(table_start_index, row_index, 0),
         insertBelow |-> insert_below]]

delete_table_row_request(table_start_index, row_index) ==
    [deleteTableRow |->
        [tableCellLocation |-> TableCellLocation(table_start_index, row_index, 0)]]

insert_table_column_request(table_start_index, column_index, insert_right) ==
    [insertTableColumn |->
        [tableCellLocation |-> TableCellLocation(table_start_index, 0, column_index),
         insertRight |-> insert_right]]

delete_table_column_request(table_start_index, column_index) ==
    [deleteTableColumn |->
        [tableCellLocation |-> TableCellLocation(table_start_index, 0, column_index)]]

-----------------------------------------------------------------------------
(* The builders applied to every style of a bounded set. *)

OptionalSizes == {None, Some(0), Some(12)}
OptionalFamilies == {None, Some(""), Some("Arial")}
OptionalUrls == {None, Some(""), Some("https://x.org")}
OptionalColors ==
    {None, Some(<<>>), Some(<<"#", "F", "F", "0", "0", "8", "0">>)}

TextStyles ==
    [bold : BOOLEAN, italic : BOOLEAN, underline : BOOLEAN, strikethrough : BOOLEAN,
     font_size : OptionalSizes, font_family : OptionalFamilies,
     foreground_color : OptionalColors, background_color : OptionalColors,
     link_url : OptionalUrls]

ParagraphStyles ==
    [named_style : {"NORMAL_TEXT", "TITLE", "HEADING_2"},
     alignment : {"START", "CENTER"},
     line_spacing : {100, 150},
     space_above_pt : {0, 6},
     space_below_pt : {0, 6},
     indent_first_line_pt : {0, 18}]

Pending(builder) == [pending |-> builder]

InitStyle ==
    \/ /\ textStyle \in TextStyles
       /\ paragraphStyle = DefaultParagraphStyle
       /\ styleRequest = Pending("update_text_style_request")
    \/ /\ textStyle = DefaultTextStyle
       /\ paragraphStyle \in ParagraphStyles
       /\ styleRequest = Pending("update_paragraph_style_request")

IdleStyle ==
    /\ textStyle = DefaultTextStyle
    /\ paragraphStyle = DefaultParagraphStyle
    /\ styleRequest = Pending("none")

BuildTextStyle ==
    /\ styleRequest = Pending("update_text_style_request")
    /\ \E start_index \in 0..1, length \in 0..1 :
          styleRequest' = update_text_style_request(
                              start_index, start_index + length, textStyle, None)
    /\ UNCHANGED <<textStyle, paragraphStyle>>
    /\ UNCHANGED <<resolverVars, cmdVars, readVars, serviceVars, sessionVars, authVars>>

BuildParagraphStyle ==
    /\ styleRequest = Pending("update_paragraph_style_request")
    /\ \E start_index \in 0..1, length \in 0..1 :
          styleRequest' = update_paragraph_style_request(
                              start_index, start_index + length, paragraphStyle, None)
    /\ UNCHANGED <<textStyle, paragraphStyle>>
    /\ UNCHANGED <<resolverVars, cmdVars, readVars, serviceVars, sessionVars, authVars>>

-----------------------------------------------------------------------------
(* The remote document service: the body of one document and what a       *)
(* documents.get and a documents.batchUpdate do to it.                     *)

Paragraph(size) == [kind |-> "paragraph", size |-> size, rows |-> 0, columns |-> 0]

\* A table of empty cells: the table's own start, one index per row, and per
\* cell its start and the newline of its one paragraph.
TableSize(rows, columns) == 1 + rows * (1 + 2 * columns)

TableElement(rows, columns) ==
    [kind |-> "table", size |-> TableSize(rows, columns),
     rows |-> rows, columns |-> columns]

RECURSIVE SizeSum(_, _)
SizeSum(d, k) == IF k = 0 THEN 0 ELSE d[k].size + SizeSum(d, k - 1)

\* The body starts at index 1; every element occupies [startIndex, endIndex).
StartOf(d, k) == 1 + SizeSum(d, k - 1)
EndOf(d, k) == 1 + SizeSum(d, k)
DocEnd(d) == EndOf(d, Len(d))

\* One structural element as documents.get returns it.
StructuralElement(d, k) ==
    IF d[k].kind = "table"
    THEN [startIndex |-> StartOf(d, k), endIndex |-> EndOf(d, k),
          table |-> [rows |-> d[k].rows, columns |-> d[k].columns]]
    ELSE [startIndex |-> StartOf(d, k), endIndex |-> EndOf(d, k),
          paragraph |-> [elements |-> <<>>]]

\* The response of documents.get
DocumentResponse(d) ==
    [body |-> [content |-> [k \in 1..Len(d) |-> StructuralElement(d, k)]]]

Accepted(d) == [ok |-> TRUE, doc |-> d]
Rejected(d) == [ok |-> FALSE, doc |-> d]

\* The elements of d that hold index i.
Holding(d, i) == {k \in 1..Len(d) : StartOf(d, k) <= i /\ i < EndOf(d, k)}

\* The tables of d that start at index i.
TablesAt(d, i) == {k \in 1..Len(d) : d[k].kind = "table" /\ StartOf(d, k) = i}

Resize(d, k, rows, columns) ==
    IF rows = 0 \/ columns = 0
    THEN [j \in 1..(Len(d) - 1) |-> IF j < k THEN d[j] ELSE d[j + 1]]
    ELSE [d EXCEPT ![k] = TableElement(rows, columns)]

\* What the service does with one request of a batch.
ApplyRequest(d, req) ==
    IF "replaceAllText" \in DOMAIN req THEN
        \* the text of the runs changes, the elements stay as they are
        Accepted(d)
    ELSE IF "insertText" \in DOMAIN req THEN
        LET r == req.insertText
            n == Len(r.text)
        IN  IF "location" \in DOMAIN r THEN
                LET ks == {k \in Holding(d, r.location.index) : d[k].kind = "paragraph"}
                IN  IF ks = {} THEN Rejected(d)
                    ELSE LET k == CHOOSE k \in ks : TRUE
                         IN  Accepted([d EXCEPT ![k].size = @ + n])
            ELSE IF d # <<>> /\ d[Len(d)].kind = "paragraph"
                 THEN Accepted([d EXCEPT ![Len(d)].size = @ + n])
                 ELSE Accepted(Append(d, Paragraph(n)))
    ELSE IF "updateParagraphStyle" \in DOMAIN req \/ "updateTextStyle" \in DOMAIN req THEN
        LET r == IF "updateParagraphStyle" \in DOMAIN req
                 THEN req.updateParagraphStyle.range
                 ELSE req.updateTextStyle.range
        IN  IF 1 <= r.startIndex /\ r.startIndex < r.endIndex /\ r.endIndex <= DocEnd(d)
            THEN Accepted(d)
            ELSE Rejected(d)
    ELSE
        LET loc == IF "insertTableRow" \in DOMAIN req
                       THEN req.insertTableRow.tableCellLocation
                   ELSE IF "deleteTableRow" \in DOMAIN req
                       THEN req.deleteTableRow.tableCellLocation
                   ELSE IF "insertTableColumn" \in DOMAIN req
                       THEN req.insertTableColumn.tableCellLocation
                   ELSE req.deleteTableColumn.tableCellLocation
            ks == TablesAt(d, loc.tableStartLocation.index)
        IN  IF ks = {} THEN Rejected(d)
            ELSE LET k == CHOOSE k \in ks : TRUE
                     t == d[k]
                 IN  IF ~(0 <= loc.rowIndex /\ loc.rowIndex < t.rows
                          /\ 0 <= loc.columnIndex /\ loc.columnIndex < t.columns)
                     THEN Rejected(d)
                     ELSE IF "insertTableRow" \in DOMAIN req
                         THEN Accepted(Resize(d, k, t.rows + 1, t.columns))
                     ELSE IF "deleteTableRow" \in DOMAIN req
                         THEN Accepted(Resize(d, k, t.rows - 1, t.columns))
                     ELSE IF "insertTableColumn" \in DOMAIN req
                         THEN Accepted(Resize(d, k, t.rows, t.columns + 1))
                     ELSE Accepted(Resize(d, k, t.rows, t.columns - 1))

RECURSIVE ApplyBatch(_, _)
\* The requests of a batch are applied in order, all or nothing.
ApplyBatch(d, requests) ==
    IF requests = <<>> THEN Accepted(d)
    ELSE LET first == ApplyRequest(d, Head(requests))
         IN  IF first.ok THEN ApplyBatch(first.doc, Tail(requests)) ELSE first

-----------------------------------------------------------------------------
(* One command invocation: cli/auth.py require_auth, services/docs.py      *)
(* get_document_content and batch_update, cli/content.py, cli/table.py.    *)

\* d.get(key, default)
Get(d, key, default) == IF key \in DOMAIN d THEN d[key] ELSE default

\* list[i] raises IndexError unless -len(list) <= i < len(list)
IndexInRange(list, i) == -Len(list) <= i /\ i < Len(list)

\* list[i] for an index in range
PyIndex(list, i) == IF i >= 0 THEN list[i + 1] ELSE list[Len(list) + i + 1]

\* str.upper() on the heading names the model draws.
Upper(s) ==
    CASE s = "title" -> "TITLE"
      [] s = "Heading_1" -> "HEADING_1"
      [] s = "bogus" -> "BOGUS"
      [] OTHER -> s

\* NamedStyleType[name]: the member of that name, or KeyError (None here).
NamedStyleTypeByName(name) == IF name \in NamedStyleType THEN Some(name) ELSE None

\* How a call through get_docs_service and _execute_with_retry can end:
\*   ok                 the response is returned
\*   TokenExpiredError  the service answered 401
\*   HttpError          another error, re-raised to the command
\*   NotAuthenticated   get_docs_service found no credentials and raised
\*                      before any request was sent
RemoteResults == {"ok", "TokenExpiredError", "HttpError", "NotAuthenticated"}

Call(api, requests, result, response) ==
    [api |-> api, requests |-> requests, result |-> result, response |-> response]

NoResponse == [body |-> [content |-> <<>>]]

Exit(kind, status, detail) == [kind |-> kind, status |-> status, detail |-> detail]
Running == Exit("running", 0, <<>>)

NoLocals ==
    [requests |-> <<>>, end_index |-> 0, style_type |-> "", new_end |-> 0,
     tables |-> <<>>]

Command(name, text, index, heading, bold, italic, table_index, position, flag) ==
    [name |-> name, text |-> text, index |-> index, heading |-> heading,
     bold |-> bold, italic |-> italic, table_index |-> table_index,
     position |-> position, flag |-> flag]

NoCommand == Command("none", "", 1, None, FALSE, FALSE, 0, 0, FALSE)

Texts == {"", "Title"}
Headings == {None, Some(""), Some("HEADING_1"), Some("title"), Some("bogus")}
TableCommandNames == {"add-row", "delete-row", "add-column", "delete-column"}

ContentCommands ==
    {Command("insert", t, i, h, b, it, 0, 0, FALSE) :
        t \in Texts, i \in 1..2, h \in Headings, b \in BOOLEAN, it \in BOOLEAN}
    \cup {Command("append", t, 1, h, FALSE, FALSE, 0, 0, FALSE) :
        t \in Texts, h \in Headings}

TableCommands ==
    {Command(n, "", 1, None, FALSE, FALSE, ti, pos, f) :
        n \in TableCommandNames, ti \in -1..MaxElements, pos \in 0..1, f \in BOOLEAN}

\* from-file: `text` is what the file holds, `flag` whether the path exists.
FileCommands ==
    {Command("from-file", t, 1, None, FALSE, FALSE, 0, 0, f) :
        t \in Texts, f \in BOOLEAN}

\* replace: `text` is the text to find, `flag` is match_case, and the record
\* carries the replacement as well.
ReplaceCommands ==
    {[replace |-> r] @@ Command("replace", "Title", 1, None, FALSE, FALSE, 0, 0, f) :
        r \in Texts, f \in BOOLEAN}

Commands == ContentCommands \cup TableCommands \cup FileCommands \cup ReplaceCommands

EntryPoint(name) == IF name \in TableCommandNames THEN "table" ELSE name

Elements == {Paragraph(1), Paragraph(3), TableElement(1, 1), TableElement(2, 2)}

Documents == UNION {[1..k -> Elements] : k \in 0..MaxElements}

InitCommand ==
    /\ doc \in Documents
    /\ cmd = NoCommand
    /\ pc = "idle"
    /\ calls = <<>>
    /\ locals = NoLocals
    /\ outcome = Running

IdleCommand ==
    /\ doc = <<>>
    /\ cmd = NoCommand
    /\ pc = "idle"
    /\ calls = <<>>
    /\ locals = NoLocals
    /\ outcome = Running

\* A slip: the exception is swallowed and the command reports success.
Raise_reporting_success(result) ==
    /\ pc' = "exited"
    /\ outcome' = Exit("success", 0, <<>>)

\* The exception `result` leaves the command: require_auth catches
\* TokenExpiredError; anything else ends the process with a traceback.
Raise(result) ==
    /\ pc' = "exited"
    /\ outcome' = CASE result = "TokenExpiredError" -> Exit("TOKEN_EXPIRED", 1, <<>>)
                    [] result = "HttpError" -> Exit("exception", 1, <<"HttpError">>)
                    [] result = "NotAuthenticated" -> Exit("exception", 1, <<"Exception">>)

Finish(kind, status, detail) ==
    /\ pc' = "exited"
    /\ outcome' = Exit(kind, status, detail)

\* batch_update(document_id, requests): the service applies the batch when
\* the call ends ok, and `response` is what the call returns.
batch_update_returning(requests, result, response) ==
    /\ result = "ok" => ApplyBatch(doc, requests).ok
    /\ doc' = IF result = "ok" THEN ApplyBatch(doc, requests).doc ELSE doc
    /\ calls' = IF result = "NotAuthenticated" THEN calls
                ELSE Append(calls, Call("documents.batchUpdate", requests, result,
                                        IF result = "ok" THEN response ELSE NoResponse))

\* batch_update for the commands that do not look at what it returns.
batch_update(requests, result) == batch_update_returning(requests, result, NoResponse)

\* A slip: the document is fetched twice.
get_document_content_twice(result) ==
    /\ doc' = doc
    /\ calls' = IF result = "NotAuthenticated" THEN calls
                ELSE calls \o
                     << Call("documents.get", <<>>, result, NoResponse),
                        Call("documents.get", <<>>, result,
                             IF result = "ok" THEN DocumentResponse(doc)
                             ELSE NoResponse) >>

\* get_document_content(document_id)
get_document_content(result) ==
    /\ doc' = doc
    /\ calls' = IF result = "NotAuthenticated" THEN calls
                ELSE Append(calls, Call("documents.get", <<>>, result,
                                        IF result = "ok" THEN DocumentResponse(doc)
                                        ELSE NoResponse))

\* A process starts: the arguments are parsed and the require_auth wrapper
\* asks is_authenticated() before it runs the command.
Invoke ==
    /\ pc = "idle"
    /\ \E c \in Commands, authenticated \in BOOLEAN :
          /\ cmd' = c
          /\ IF authenticated
             THEN pc' = EntryPoint(c.name) /\ outcome' = Running
             ELSE Finish("NOT_AUTHENTICATED", 1, <<>>)
    /\ calls' = <<>>
    /\ locals' = NoLocals
    /\ UNCHANGED doc
    /\ UNCHANGED <<resolverVars, styleVars, readVars, serviceVars, sessionVars, authVars>>

\* Another editor of the document inserts a paragraph in front of the body.
ExternalEdit ==
    /\ Len(doc) <= MaxElements
    /\ pc \notin {"idle", "exited"}
    /\ doc' = <<Paragraph(1)>> \o doc
    /\ UNCHANGED <<cmd, pc, calls, locals, outcome>>
    /\ UNCHANGED <<resolverVars, styleVars, readVars, serviceVars, sessionVars, authVars>>

-----------------------------------------------------------------------------
(* cli/content.py: insert_command *)

\* A slip: the heading range leaves out the newline that was appended.
InsertRequests_without_newline(c, style_type) ==
    LET text_with_newline == c.text \o "\n"
        end_index == c.index + Len(c.text)
        inserted == <<insert_text_request(text_with_newline, c.index, None)>>
        headed == IF Truthy(c.heading)
                  THEN Append(inserted,
                              apply_named_style_request(c.index, end_index, style_type, None))
                  ELSE inserted
    IN  IF c.bold \/ c.italic
        THEN Append(headed,
                    update_text_style_request(
                        c.index, c.index + Len(c.text),
                        [DefaultTextStyle EXCEPT !.bold = c.bold, !.italic = c.italic],
                        None))
        ELSE headed

\* The requests list insert_command has built when it reaches batch_update.
InsertRequests(c, style_type) ==
    LET text_with_newline == c.text \o "\n"
        end_index == c.index + Len(text_with_newline)
        inserted == <<insert_text_request(text_with_newline, c.index, None)>>
        headed == IF Truthy(c.heading)
                  THEN Append(inserted,
                              apply_named_style_request(c.index, end_index, style_type, None))
                  ELSE inserted
    IN  IF c.bold \/ c.italic
        THEN Append(headed,
                    update_text_style_request(
                        c.index, c.index + Len(c.text),
                        [DefaultTextStyle EXCEPT !.bold = c.bold, !.italic = c.italic],
                        None))
        ELSE headed

InsertCommand ==
    /\ pc = "insert"
    /\ LET style_type == IF Truthy(cmd.heading)
                         THEN NamedStyleTypeByName(Upper(cmd.heading[1]))
                         ELSE None
       IN  IF Truthy(cmd.heading) /\ style_type = None
           THEN /\ Finish("invalid_heading", 1, <<cmd.heading[1]>>)
                /\ UNCHANGED <<doc, calls, locals>>
           ELSE \E result \in RemoteResults :
                   LET requests == InsertRequests(cmd, IF style_type = None THEN ""
                                                       ELSE style_type[1])
                   IN  /\ batch_update(requests, result)
                       /\ locals' = [locals EXCEPT !.requests = requests]
                       /\ IF result = "ok"
                          THEN Finish("success", 0, <<>>)
                          ELSE Raise(result)
    /\ UNCHANGED cmd
    /\ UNCHANGED <<resolverVars, styleVars, readVars, serviceVars, sessionVars, authVars>>

-----------------------------------------------------------------------------
(* cli/content.py: append_command *)

\* A slip: the text is inserted at an absolute index.
AppendRequests_at_index(c) == <<insert_text_request(c.text \o "\n", 1, None)>>

AppendRequests(c) == <<insert_text_at_end_request(c.text \o "\n", None)>>

\* The endIndex of the last element of a response's body, 1 without content.
LastEndIndex(response) ==
    LET content == Get(Get(response, "body", <<>>), "content", <<>>)
    IN  IF content # <<>> THEN Get(content[Len(content)], "endIndex", 1) ELSE 1

\* Without --heading: the one batch.
AppendPlain ==
    /\ pc = "append"
    /\ ~Truthy(cmd.heading)
    /\ \E result \in RemoteResults :
          /\ batch_update(AppendRequests(cmd), result)
          /\ IF result = "ok" THEN Finish("success", 0, <<>>) ELSE Raise(result)
    /\ locals' = [locals EXCEPT !.requests = AppendRequests(cmd)]
    /\ UNCHANGED cmd
    /\ UNCHANGED <<resolverVars, styleVars, readVars, serviceVars, sessionVars, authVars>>

\* With --heading: the document is read, then the heading name is looked up.
AppendRead ==
    /\ pc = "append"
    /\ Truthy(cmd.heading)
    /\ \E result \in RemoteResults :
          /\ get_document_content(result)
          /\ IF result = "ok"
             THEN LET end_index == LastEndIndex(DocumentResponse(doc))
                      style_type == NamedStyleTypeByName(Upper(cmd.heading[1]))
                  IN  IF style_type = None
                      THEN /\ Finish("invalid_heading", 1, <<cmd.heading[1]>>)
                           /\ locals' = [locals EXCEPT !.requests = AppendRequests(cmd),
                                                       !.end_index = end_index]
                      ELSE /\ pc' = "append_batch"
                           /\ outcome' = outcome
                           /\ locals' = [locals EXCEPT !.requests = AppendRequests(cmd),
                                                       !.end_index = end_index,
                                                       !.style_type = style_type[1]]
             ELSE /\ Raise(result)
                  /\ locals' = [locals EXCEPT !.requests = AppendRequests(cmd)]
    /\ UNCHANGED cmd
    /\ UNCHANGED <<resolverVars, styleVars, readVars, serviceVars, sessionVars, authVars>>

AppendBatch ==
    /\ pc = "append_batch"
    /\ \E result \in RemoteResults :
          /\ batch_update(locals.requests, result)
          /\ IF result = "ok"
             THEN pc' = "append_reread" /\ outcome' = outcome
             ELSE Raise(result)
    /\ UNCHANGED <<cmd, locals>>
    /\ UNCHANGED <<resolverVars, styleVars, readVars, serviceVars, sessionVars, authVars>>

\* The second read; without content in it the command ends with no style batch.
AppendReread ==
    /\ pc = "append_reread"
    /\ \E result \in RemoteResults :
          /\ get_document_content(result)
          /\ IF result = "ok"
             THEN LET new_content == Get(Get(DocumentResponse(doc), "body", <<>>),
                                         "content", <<>>)
                  IN  IF new_content # <<>>
                      THEN /\ pc' = "append_style"
                           /\ outcome' = outcome
                           /\ locals' = [locals EXCEPT
                                  !.new_end = Get(new_content[Len(new_content)],
                                                  "endIndex", 1)]
                      ELSE /\ Finish("success", 0, <<>>)
                           /\ locals' = locals
             ELSE Raise(result) /\ locals' = locals
    /\ UNCHANGED cmd
    /\ UNCHANGED <<resolverVars, styleVars, readVars, serviceVars, sessionVars, authVars>>

\* A slip: the style range runs to the new end of the body.
StyleRequests_to_new_end(l) ==
    <<apply_named_style_request(l.end_index, l.new_end, l.style_type, None)>>

StyleRequests(l) ==
    <<apply_named_style_request(l.end_index, l.new_end - 1, l.style_type, None)>>

AppendStyle ==
    /\ pc = "append_style"
    /\ \E result \in RemoteResults :
          /\ batch_update(StyleRequests(locals), result)
          /\ IF result = "ok" THEN Finish("success", 0, <<>>) ELSE Raise(result)
    /\ UNCHANGED <<cmd, locals>>
    /\ UNCHANGED <<resolverVars, styleVars, readVars, serviceVars, sessionVars, authVars>>

-----------------------------------------------------------------------------
(* cli/content.py: from_file_command *)

FromFileRequests(c) == <<insert_text_at_end_request(c.text, None)>>

FromFileCommand ==
    /\ pc = "from-file"
    /\ IF ~cmd.flag
       THEN /\ Finish("file_not_found", 1, <<>>)
            /\ UNCHANGED <<doc, calls, locals>>
       ELSE \E result \in RemoteResults :
               /\ batch_update(FromFileRequests(cmd), result)
               /\ locals' = [locals EXCEPT !.requests = FromFileRequests(cmd)]
               /\ IF result = "ok"
                  THEN Finish("success", 0, <<Len(cmd.text)>>)
                  ELSE Raise(result)
    /\ UNCHANGED cmd
    /\ UNCHANGED <<resolverVars, styleVars, readVars, serviceVars, sessionVars, authVars>>

-----------------------------------------------------------------------------
(* cli/content.py: replace_command *)

EmptyDict == <<>>

\* What documents.batchUpdate can return for the one replaceAllText request.
MaxOccurrences == 2
ReplaceResponses ==
    {[documentId |-> "doc"],
     [documentId |-> "doc", replies |-> <<>>],
     [documentId |-> "doc", replies |-> <<EmptyDict>>],
     [documentId |-> "doc", replies |-> <<[replaceAllText |-> EmptyDict]>>]}
    \cup {[documentId |-> "doc",
           replies |-> <<[replaceAllText |-> [occurrencesChanged |-> n]]>>] :
              n \in 0..MaxOccurrences}

ReplaceRequests(c) == <<replace_all_text_request(c.text, c.replace, c.flag)>>

\* The count replace_command reports for the response `result`.
Occurrences(result) ==
    LET replies == Get(result, "replies", <<>>)
    IN  IF replies # <<>>
        THEN Get(Get(replies[1], "replaceAllText", EmptyDict), "occurrencesChanged", 0)
        ELSE 0

ReplaceCommand ==
    /\ pc = "replace"
    /\ \E result \in RemoteResults, response \in ReplaceResponses :
          /\ batch_update_returning(ReplaceRequests(cmd), result, response)
          /\ locals' = [locals EXCEPT !.requests = ReplaceRequests(cmd)]
          /\ IF result = "ok"
             THEN Finish("success", 0, <<Occurrences(response)>>)
             ELSE Raise(result)
    /\ UNCHANGED cmd
    /\ UNCHANGED <<resolverVars, styleVars, readVars, serviceVars, sessionVars, authVars>>

-----------------------------------------------------------------------------
(* cli/table.py *)

IsTable(element) == "table" \in DOMAIN element

TableInfo(element) ==
    [start_index |-> element.startIndex,
     end_index |-> element.endIndex,
     rows |-> Get(element.table, "rows", 0),
     columns |-> Get(element.table, "columns", 0)]

\* A slip: the tables inside the cells of a table are listed after it.
_find_tables_with_nested(doc_content) ==
    LET body_content == Get(Get(doc_content, "body", <<>>), "content", <<>>)
        InCell(cell) == SelectSeq(Get(cell, "content", <<>>), IsTable)
        InRow(row) ==
            LET cells == Get(row, "tableCells", <<>>)
            IN  Concat([c \in 1..Len(cells) |-> InCell(cells[c])])
        Inside(table) ==
            LET rows == Get(table, "tableRows", <<>>)
            IN  Concat([r \in 1..Len(rows) |-> InRow(rows[r])])
        found ==
            Concat([k \in 1..Len(body_content) |->
                       IF IsTable(body_content[k])
                       THEN <<body_content[k]>> \o Inside(body_content[k].table)
                       ELSE <<>>])
    IN  [k \in 1..Len(found) |-> TableInfo(found[k])]

_find_tables(doc_content) ==
    LET content == Get(Get(doc_content, "body", <<>>), "content", <<>>)
        found == SelectSeq(content, IsTable)
    IN  [k \in 1..Len(found) |-> TableInfo(found[k])]

\* A slip: the first table is taken whatever the index.
SelectedTable_first(tables, table_index) == tables[1]

\* table = tables[table_index], reached only when table_index < len(tables).
SelectedTable(tables, table_index) == PyIndex(tables, table_index)

\* The one request of a table command.
TableRequests(c, table) ==
    CASE c.name = "add-row" ->
            <<insert_table_row_request(table.start_index, c.position, ~c.flag)>>
      [] c.name = "delete-row" ->
            <<delete_table_row_request(table.start_index, c.position)>>
      [] c.name = "add-column" ->
            <<insert_table_column_request(table.start_index, c.position, ~c.flag)>>
      [] c.name = "delete-column" ->
            <<delete_table_column_request(table.start_index, c.position)>>

\* A slip: the bounds test lets table_index = len(tables) through.
TableNotFound_strict(table_index, tables) == table_index > Len(tables)

\* The bounds test of the four commands: table_index >= len(tables)
TableNotFound(table_index, tables) == table_index >= Len(tables)

\* The document is read, the tables are located and the index is tested.
TableRead ==
    /\ pc = "table"
    /\ \E result \in RemoteResults :
          /\ get_document_content(result)
          /\ IF result = "ok"
             THEN LET tables == _find_tables(DocumentResponse(doc))
                  IN  IF TableNotFound(cmd.table_index, tables)
                      THEN /\ Finish("table_not_found", 1,
                                     <<cmd.table_index, Len(tables)>>)
                           /\ locals' = [locals EXCEPT !.tables = tables]
                      ELSE IF ~IndexInRange(tables, cmd.table_index)
                      THEN \* tables[table_index] raises IndexError
                           /\ Finish("exception", 1, <<"IndexError">>)
                           /\ locals' = [locals EXCEPT !.tables = tables]
                      ELSE /\ pc' = "table_batch"
                           /\ outcome' = outcome
                           /\ locals' = [locals EXCEPT
                                  !.tables = tables,
                                  !.requests = TableRequests(
                                      cmd, SelectedTable(tables, cmd.table_index))]
             ELSE Raise(result) /\ locals' = locals
    /\ UNCHANGED cmd
    /\ UNCHANGED <<resolverVars, styleVars, readVars, serviceVars, sessionVars, authVars>>

TableBatch ==
    /\ pc = "table_batch"
    /\ \E result \in RemoteResults :
          /\ batch_update(locals.requests, result)
          /\ IF result = "ok" THEN Finish("success", 0, <<>>) ELSE Raise(result)
    /\ UNCHANGED <<cmd, locals>>
    /\ UNCHANGED <<resolverVars, styleVars, readVars, serviceVars, sessionVars, authVars>>

-----------------------------------------------------------------------------
(* cli/content.py: the document tree readers.  The text of a run and of a  *)
(* projection is a sequence of one-character strings, so that join, strip  *)
(* and rstrip work on characters.                                          *)

RECURSIVE JoinText(_, _)
\* sep.join(parts)
JoinText(parts, sep) ==
    IF parts = <<>> THEN <<>>
    ELSE IF Len(parts) = 1 THEN parts[1]
    ELSE parts[1] \o sep \o JoinText(Tail(parts), sep)

\* The characters str.strip() removes.
Whitespace == {" ", "\n", "\t"}

RECURSIVE LStripIn(_, _)
LStripIn(s, chars) ==
    IF s # <<>> /\ s[1] \in chars THEN LStripIn(Tail(s), chars) ELSE s

RECURSIVE RStripIn(_, _)
\* s.rstrip(chars)
RStripIn(s, chars) ==
    IF s # <<>> /\ s[Len(s)] \in chars
    THEN RStripIn(SubSeq(s, 1, Len(s) - 1), chars)
    ELSE s

\* s.strip()
Strip(s) == RStripIn(LStripIn(s, Whitespace), Whitespace)

IsTextRun(elem) == "textRun" \in DOMAIN elem
IsParagraph(element) == "paragraph" \in DOMAIN element

_extract_text_from_paragraph(paragraph) ==
    LET runs == SelectSeq(Get(paragraph, "elements", <<>>), IsTextRun)
    IN  Concat([k \in 1..Len(runs) |-> Get(runs[k].textRun, "content", <<>>)])

\* The named style of a paragraph, None when the response has none.
_get_paragraph_style(paragraph) ==
    LET style == Get(paragraph, "paragraphStyle", <<>>)
    IN  IF "namedStyleType" \in DOMAIN style THEN Some(style.namedStyleType) ELSE None

_extract_cell_text(cell) ==
    LET paragraphs == SelectSeq(Get(cell, "content", <<>>), IsParagraph)
    IN  Strip(Concat([k \in 1..Len(paragraphs) |->
                         _extract_text_from_paragraph(paragraphs[k].paragraph)]))

\* "| " + " | ".join(texts) + " |"
PipeRow(texts) == <<"|", " ">> \o JoinText(texts, <<" ", "|", " ">>) \o <<" ", "|">>

Dashes == <<"-", "-", "-">>

\* The separator row has one cell per cell of the first row.
SeparatorCells(rows) == Len(Get(rows[1], "tableCells", <<>>))

_table_to_markdown(table) ==
    LET rows == Get(table, "tableRows", <<>>)
        RowLine(row) ==
            LET cells == Get(row, "tableCells", <<>>)
            IN  PipeRow([k \in 1..Len(cells) |-> _extract_cell_text(cells[k])])
        separator == PipeRow([k \in 1..SeparatorCells(rows) |-> Dashes])
        markdown_rows ==
            Concat([k \in 1..Len(rows) |->
                       IF k = 1 THEN <<RowLine(rows[k]), separator>>
                       ELSE <<RowLine(rows[k])>>])
    IN  IF rows = <<>> THEN <<>> ELSE JoinText(markdown_rows, <<"\n">>)

Hashes(n) == [k \in 1..n |-> "#"]

\* A slip: TITLE is rendered one level below HEADING_1.
HeadingLevel_title_second(style) ==
    CASE style = Some("TITLE") -> 2
      [] style = Some("HEADING_1") -> 1
      [] style = Some("HEADING_2") -> 2
      [] style = Some("HEADING_3") -> 3
      [] style = Some("HEADING_4") -> 4
      [] style = Some("HEADING_5") -> 5
      [] style = Some("HEADING_6") -> 6
      [] OTHER -> 0

\* The number of '#' signs of the if/elif chain; 0 for the other branches.
HeadingLevel(style) ==
    CASE style = Some("TITLE") -> 1
      [] style = Some("HEADING_1") -> 1
      [] style = Some("HEADING_2") -> 2
      [] style = Some("HEADING_3") -> 3
      [] style = Some("HEADING_4") -> 4
      [] style = Some("HEADING_5") -> 5
      [] style = Some("HEADING_6") -> 6
      [] OTHER -> 0

\* What one element appends to markdown_parts: no part or one part.
MarkdownParts(element) ==
    IF IsParagraph(element) THEN
        LET paragraph == element.paragraph
            text == RStripIn(_extract_text_from_paragraph(paragraph), {"\n"})
            style == _get_paragraph_style(paragraph)
        IN  IF text = <<>> THEN <<>>
            ELSE IF style = Some("SUBTITLE")
                 THEN << <<"*">> \o text \o <<"*", "\n">> >>
            ELSE IF HeadingLevel(style) > 0
                 THEN << Hashes(HeadingLevel(style)) \o <<" ">> \o text \o <<"\n">> >>
            ELSE << text \o <<"\n">> >>
    ELSE IF IsTable(element) THEN
        << <<"\n">> \o _table_to_markdown(element.table) \o <<"\n">> >>
    ELSE <<>>

_content_to_markdown(content_list) ==
    JoinText(Concat([k \in 1..Len(content_list) |-> MarkdownParts(content_list[k])]),
             <<"\n">>)

\* What one element appends to text_parts, already joined.
TextParts(element) ==
    IF IsParagraph(element) THEN _extract_text_from_paragraph(element.paragraph)
    ELSE IF IsTable(element) THEN
        LET rows == Get(element.table, "tableRows", <<>>)
            RowText(row) ==
                LET cells == Get(row, "tableCells", <<>>)
                IN  Concat([k \in 1..Len(cells) |->
                               _extract_cell_text(cells[k]) \o <<"\t">>]) \o <<"\n">>
        IN  Concat([k \in 1..Len(rows) |-> RowText(rows[k])])
    ELSE <<>>

_extract_text_from_content(content_list) ==
    Concat([k \in 1..Len(content_list) |-> TextParts(content_list[k])])

-----------------------------------------------------------------------------
(* The bodies the readers are applied to. *)

MaxParts == 2

Run(text) == [textRun |-> [content |-> text]]

\* A paragraph with a named style (style = None: the response carries none).
ParagraphOf(style, runs) ==
    IF style = None THEN [paragraph |-> [elements |-> runs]]
    ELSE [paragraph |-> [elements |-> runs,
                         paragraphStyle |-> [namedStyleType |-> style[1]]]]

Plain(text) == ParagraphOf(Some("NORMAL_TEXT"), <<Run(text)>>)

Cell(elements) == [content |-> elements]
Row(cells) == [tableCells |-> cells]
TableOf(rows) ==
    [table |-> [rows |-> Len(rows),
                columns |-> IF rows = <<>> THEN 0 ELSE Len(rows[1].tableCells),
                tableRows |-> rows]]

Hello == <<"H", "e", "l", "l", "o", "\n">>

ReadStyles ==
    {None} \cup {Some(s) : s \in NamedStyleType}

ReadParagraphs ==
    {ParagraphOf(s, <<Run(Hello)>>) : s \in ReadStyles}
    \cup {Plain(<<"\n">>),
          ParagraphOf(Some("TITLE"), <<Run(<<"\n">>)>>),
          Plain(<<" ", "\n">>),
          ParagraphOf(Some("HEADING_2"),
                      <<Run(<<"H", "e">>), [pageBreak |-> <<>>],
                        Run(<<"l", "l", "o", "\n">>)>>)}

ReadTables ==
    { \* the table A,B / 1,2
      TableOf(<<Row(<<Cell(<<Plain(<<"A", "\n">>)>>), Cell(<<Plain(<<"B", "\n">>)>>)>>),
                Row(<<Cell(<<Plain(<<"1", "\n">>)>>), Cell(<<Plain(<<"2", "\n">>)>>)>>)>>),
      \* a ragged table: a merged first row over two columns
      TableOf(<<Row(<<Cell(<<Plain(<<"A", "\n">>)>>)>>),
                Row(<<Cell(<<Plain(<<"1", "\n">>)>>), Cell(<<Plain(<<"\n">>)>>)>>)>>),
      \* a cell of two paragraphs
      TableOf(<<Row(<<Cell(<<Plain(<<"A", "\n">>), Plain(<<"B", "\n">>)>>)>>)>>),
      \* a cell whose text is indented
      TableOf(<<Row(<<Cell(<<Plain(<<" ", "A", "\n">>)>>),
                      Cell(<<Plain(<<"B", "\n">>)>>)>>)>>),
      \* a table nested in a cell
      TableOf(<<Row(<<Cell(<<
          TableOf(<<Row(<<Cell(<<Plain(<<"1", "\n">>)>>)>>)>>),
          Plain(<<"\n">>)>>)>>)>>) }

ReadElements == ReadParagraphs \cup ReadTables

RECURSIVE Sum(_)
Sum(s) == IF s = <<>> THEN 0 ELSE s[1] + Sum(Tail(s))

RECURSIVE Extent(_)
\* The number of indices an element occupies: a paragraph its characters, a
\* table its start, one per row, one per cell, the cells' content, its end.
Extent(element) ==
    IF IsParagraph(element)
    THEN Len(_extract_text_from_paragraph(element.paragraph))
    ELSE LET rows == element.table.tableRows
             CellExtent(cell) ==
                 1 + Sum([k \in 1..Len(cell.content) |-> Extent(cell.content[k])])
             RowExtent(row) ==
                 1 + Sum([k \in 1..Len(row.tableCells) |-> CellExtent(row.tableCells[k])])
         IN  2 + Sum([k \in 1..Len(rows) |-> RowExtent(rows[k])])

RECURSIVE Place(_, _)
\* The elements with the startIndex and endIndex the service reports when the
\* first of them starts at `start`.
Place(elements, start) ==
    IF elements = <<>> THEN <<>>
    ELSE LET element == elements[1]
             CellStart(row, c) ==
                 Sum([k \in 1..(c - 1) |->
                         1 + Sum([j \in 1..Len(row.tableCells[k].content) |->
                                     Extent(row.tableCells[k].content[j])])])
             RowSize(row) == 1 + CellStart(row, Len(row.tableCells) + 1)
             RowStart(rows, r) == Sum([k \in 1..(r - 1) |-> RowSize(rows[k])])
             PlacedTable(table) ==
                 [rows |-> table.rows, columns |-> table.columns,
                  tableRows |->
                     [r \in 1..Len(table.tableRows) |->
                         [tableCells |->
                             [c \in 1..Len(table.tableRows[r].tableCells) |->
                                 [content |->
                                     Place(table.tableRows[r].tableCells[c].content,
                                           start + 1 + RowStart(table.tableRows, r) + 1
                                                 + CellStart(table.tableRows[r], c) + 1)]]]]]
             placed ==
                 IF IsParagraph(element)
                 THEN [startIndex |-> start, endIndex |-> start + Extent(element),
                       paragraph |-> element.paragraph]
                 ELSE [startIndex |-> start, endIndex |-> start + Extent(element),
                       table |-> PlacedTable(element.table)]
         IN  <<placed>> \o Place(Tail(elements), start + Extent(element))

Contents ==
    {Place(s, 1) : s \in UNION {[1..k -> ReadElements] : k \in 0..MaxParts}}

NotProjected == [reader |-> "none", at |-> 0, out |-> <<>>]
Projected(reader, at, out) == [reader |-> reader, at |-> at, out |-> out]

InitRead ==
    /\ bodyContent \in Contents
    /\ projection = NotProjected

IdleRead ==
    /\ bodyContent = <<>>
    /\ projection = NotProjected

\* table list and the table commands: _find_tables on the response
LocateTables ==
    /\ projection = NotProjected
    /\ projection' = Projected("_find_tables", 0,
                               _find_tables([body |-> [content |-> bodyContent]]))
    /\ UNCHANGED bodyContent
    /\ UNCHANGED <<resolverVars, styleVars, cmdVars, serviceVars, sessionVars, authVars>>

\* content read: the Markdown projection
ReadMarkdown ==
    /\ projection = NotProjected
    /\ projection' = Projected("_content_to_markdown", 0, _content_to_markdown(bodyContent))
    /\ UNCHANGED bodyContent
    /\ UNCHANGED <<resolverVars, styleVars, cmdVars, serviceVars, sessionVars, authVars>>

\* content read --plain
ReadPlain ==
    /\ projection = NotProjected
    /\ projection' = Projected("_extract_text_from_content", 0,
                               _extract_text_from_content(bodyContent))
    /\ UNCHANGED bodyContent
    /\ UNCHANGED <<resolverVars, styleVars, cmdVars, serviceVars, sessionVars, authVars>>

\* _table_to_markdown on the table that is element k of the body
RenderTable ==
    /\ projection = NotProjected
    /\ \E k \in 1..Len(bodyContent) :
          /\ IsTable(bodyContent[k])
          /\ projection' = Projected("_table_to_markdown", k,
                                     _table_to_markdown(bodyContent[k].table))
    /\ UNCHANGED bodyContent
    /\ UNCHANGED <<resolverVars, styleVars, cmdVars, serviceVars, sessionVars, authVars>>

-----------------------------------------------------------------------------
(* services/docs.py: the service functions and _execute_with_retry.  The   *)
(* function holds credentials; every request.execute() ends with an HTTP   *)
(* status the remote service chooses.                                      *)

MAX_RETRIES == 3
BASE_DELAY == 1

Statuses == {200, 401, 429, 500}

Request(api, wrapped) == [api |-> api, wrapped |-> wrapped]

\* The remote requests of a service function in the order it issues them;
\* wrapped: the request is given to _execute_with_retry, otherwise the
\* function calls .execute() on it itself.
Requests(fn) ==
    CASE fn.name = "create_document" ->
            <<Request("documents.create", TRUE)>>
            \o (IF fn.folder_id
                THEN <<Request("files.get", FALSE), Request("files.update", FALSE)>>
                ELSE <<>>)
      [] fn.name = "get_document" -> <<Request("documents.get", TRUE)>>
      [] fn.name = "get_document_content" -> <<Request("documents.get", TRUE)>>
      [] fn.name = "list_documents" -> <<Request("files.list", TRUE)>>
      [] fn.name = "delete_document" -> <<Request("files.delete", TRUE)>>
      [] fn.name = "move_document" ->
            <<Request("files.get", FALSE), Request("files.update", TRUE)>>
      [] fn.name = "list_shared_drives" -> <<Request("drives.list", TRUE)>>
      [] fn.name = "list_folders" -> <<Request("files.list", TRUE)>>
      [] fn.name = "list_permissions" -> <<Request("permissions.list", TRUE)>>
      [] fn.name = "share_document" -> <<Request("permissions.create", TRUE)>>
      [] fn.name = "unshare_document" -> <<Request("permissions.delete", TRUE)>>
      [] fn.name = "list_revisions" -> <<Request("revisions.list", TRUE)>>
      [] fn.name = "search_documents" -> <<Request("files.list", TRUE)>>
      [] fn.name = "batch_update" -> <<Request("documents.batchUpdate", TRUE)>>

ServiceFunctionNames ==
    {"create_document", "get_document", "get_document_content", "list_documents",
     "delete_document", "move_document", "list_shared_drives", "list_folders",
     "list_permissions", "share_document", "unshare_document", "list_revisions",
     "search_documents", "batch_update"}

ServiceFunction(name, folder_id, account) ==
    [name |-> name, folder_id |-> folder_id, account |-> account]

NoServiceFunction == ServiceFunction("none", FALSE, None)

\* The calls of the model: folder_id is whether the optional folder is given.
ServiceFunctions ==
    {ServiceFunction(n, f, a) :
        n \in ServiceFunctionNames, f \in BOOLEAN,
        a \in {None} \cup {Some(x) : x \in AccountNames}}

StillRunning == [kind |-> "running", status |-> 0, account |-> None]
HasReturned == [kind |-> "returned", status |-> 200, account |-> None]
TokenExpiredError(account) ==
    [kind |-> "TokenExpiredError", status |-> 401, account |-> account]
HttpError(status) == [kind |-> "HttpError", status |-> status, account |-> None]

Requested(request, statuses, delays) ==
    [api |-> request.api, wrapped |-> request.wrapped,
     executed |-> statuses, slept |-> delays]

RECURSIVE Power2(_)
Power2(n) == IF n = 0 THEN 1 ELSE 2 * Power2(n - 1)

\* A slip: the delay grows by BASE_DELAY per attempt.
RetryDelay_linear(n) == BASE_DELAY * (n + 1)

\* delay = BASE_DELAY * (2**attempt)
RetryDelay(n) == BASE_DELAY * Power2(n)

\* A slip: server errors are retried like rate limiting.
RateLimited_or_server_error(status) == status \in {429, 500}

\* e.resp.status == 429
RateLimited(status) == status = 429

InitService ==
    /\ service \in ServiceFunctions
    /\ step = 1
    /\ servicePc = "request"
    /\ attempt = 0
    /\ executed = <<>>
    /\ slept = <<>>
    /\ requested = <<>>
    /\ raised = StillRunning

IdleService ==
    /\ service = NoServiceFunction
    /\ step = 1
    /\ servicePc = "done"
    /\ attempt = 0
    /\ executed = <<>>
    /\ slept = <<>>
    /\ requested = <<>>
    /\ raised = StillRunning

\* The response of the current request came back: the function goes on.
Responded ==
    /\ requested' = Append(requested,
                           Requested(Requests(service)[step], executed', slept'))
    /\ step' = step + 1
    /\ servicePc' = "request"
    /\ raised' = raised

\* An exception leaves the service function.
Raised(exception) ==
    /\ raised' = exception
    /\ servicePc' = "done"
    /\ UNCHANGED <<step, requested>>

\* The function builds its next request, or returns when there is none.
BuildRequest ==
    /\ servicePc = "request"
    /\ IF step > Len(Requests(service))
       THEN /\ servicePc' = "done"
            /\ raised' = HasReturned
            /\ UNCHANGED <<executed, slept>>
       ELSE /\ servicePc' = IF Requests(service)[step].wrapped THEN "loop" ELSE "direct"
            /\ raised' = raised
            /\ executed' = <<>>
            /\ slept' = <<>>
    /\ attempt' = 0
    /\ UNCHANGED <<service, step, requested>>
    /\ UNCHANGED <<resolverVars, styleVars, cmdVars, readVars, sessionVars, authVars>>

\* _execute_with_retry: one pass of `for attempt in range(MAX_RETRIES)`
ExecuteInLoop ==
    /\ servicePc = "loop"
    /\ \E status \in Statuses :
          /\ executed' = Append(executed, status)
          /\ IF status = 200
             THEN /\ UNCHANGED <<attempt, slept>>
                  /\ Responded
             ELSE IF status = 401
             THEN /\ Raised(TokenExpiredError(service.account))
                  /\ UNCHANGED <<attempt, slept>>
             ELSE IF RateLimited(status)
             THEN /\ slept' = Append(slept, RetryDelay(attempt))
                  /\ attempt' = attempt + 1
                  /\ servicePc' = IF attempt + 1 < MAX_RETRIES THEN "loop" ELSE "final"
                  /\ UNCHANGED <<step, requested, raised>>
             ELSE /\ Raised(HttpError(status))
                  /\ UNCHANGED <<attempt, slept>>
    /\ UNCHANGED service
    /\ UNCHANGED <<resolverVars, styleVars, cmdVars, readVars, sessionVars, authVars>>

\* _execute_with_retry: `return request.execute()  # Final attempt`
ExecuteFinal ==
    /\ servicePc = "final"
    /\ \E status \in Statuses :
          /\ executed' = Append(executed, status)
          /\ slept' = slept
          /\ IF status = 200 THEN Responded ELSE Raised(HttpError(status))
    /\ UNCHANGED <<service, attempt>>
    /\ UNCHANGED <<resolverVars, styleVars, cmdVars, readVars, sessionVars, authVars>>

\* A request the function executes itself: `....execute()`
ExecuteDirect ==
    /\ servicePc = "direct"
    /\ \E status \in Statuses :
          /\ executed' = Append(executed, status)
          /\ slept' = slept
          /\ IF status = 200 THEN Responded ELSE Raised(HttpError(status))
    /\ UNCHANGED <<service, attempt>>
    /\ UNCHANGED <<resolverVars, styleVars, cmdVars, readVars, sessionVars, authVars>>

-----------------------------------------------------------------------------
(* cli/auth.py require_auth around a command, with the credential store    *)
(* and the output mode.  The command body is followed as far as the way it *)
(* ends: an argument it rejects, the service call it makes, or a table     *)
(* index it does not find in the document it read.                         *)

\* What the process writes: a JSON envelope (print_json_error, print_json),
\* a line of text (print_error, print_success, typer.echo), or the
\* traceback of an exception nothing catches.
JsonError(code) == [form |-> "json_error", code |-> code]
JsonResult == [form |-> "json", code |-> "OK"]
Text(code) == [form |-> "text", code |-> code]
Traceback(code) == [form |-> "traceback", code |-> code]

\* print_json_error when is_json_mode() else print_error
ErrorOutput(json_mode, code) == IF json_mode THEN <<JsonError(code)>> ELSE <<Text(code)>>

\* print_json when is_json_mode() else print_success
SuccessOutput(json_mode) == IF json_mode THEN <<JsonResult>> ELSE <<Text("success")>>

\* typer.echo(message, err=True): the same line in both modes
EchoOutput(code) == <<Text(code)>>

\* The commands followed and the argument each of them tests.
SessionCommands == {"content read", "content insert", "document share", "table add-row"}

\* The service function a command calls first.
CalledFirst(name) ==
    CASE name = "content read" -> "get_document_content"
      [] name = "content insert" -> "batch_update"
      [] name = "document share" -> "share_document"
      [] name = "document delete" -> "delete_document"
      [] name = "table add-row" -> "get_document_content"

ServiceCall(fn, result) == [fn |-> fn, result |-> result]

\* The service calls of the body when its first call ends with `result`:
\* add-row goes on to batch_update when it found the table.
ServiceCalls(c, result) ==
    IF c.name = "table add-row" /\ c.valid /\ result = "ok"
    THEN <<ServiceCall("get_document_content", "ok"), ServiceCall("batch_update", "ok")>>
    ELSE <<ServiceCall(CalledFirst(c.name), result)>>

RejectedArgument(c) ==
    CASE c.name = "content insert" /\ ~c.valid -> Some("invalid_heading")
      [] c.name = "document share" /\ ~c.valid -> Some("invalid_role")
      [] OTHER -> None

\* `force` is the --force option of doc delete.
Session(name, valid, force) == [name |-> name, valid |-> valid, force |-> force]
NoSession == Session("none", TRUE, FALSE)

\* A slip: the prompt is never shown.
NeedsConsent_never(c) == FALSE

\* delete_command: `if not force:` guards the confirmation prompt.
NeedsConsent(c) == c.name = "document delete" /\ ~c.force

\* is_authenticated() as require_auth calls it, without an account: the
\* first configured account has a credential.
is_authenticated(accts, creds) == accts # <<>> /\ accts[1] \in creds

\* get_credentials(account): the account whose credential is loaded.
RunsAs(accts, dflt, env, account) ==
    IF account # None THEN Returned(account[1])
    ELSE resolve_account(accts, dflt, env, None)

\* delete_credentials(account=account)
delete_credentials(creds, account) == creds \ {account}

InitSession ==
    /\ credentials \in SUBSET AccountNames
    /\ jsonMode \in BOOLEAN
    /\ session \in {Session(n, v, FALSE) : n \in SessionCommands, v \in BOOLEAN}
                 \cup {Session("document delete", TRUE, f) : f \in BOOLEAN}
    /\ sessionPc = "wrapper"
    /\ printed = <<>>
    /\ exitStatus = None
    /\ issued = <<>>
    /\ consent = None

IdleSession ==
    /\ credentials = {}
    /\ jsonMode = FALSE
    /\ session = NoSession
    /\ sessionPc = "exited"
    /\ printed = <<>>
    /\ exitStatus = None
    /\ issued = <<>>
    /\ consent = None

\* The accounts, the default, GDOCS_ACCOUNT and --account of a session.
InitSessionStore ==
    /\ accounts \in DistinctSeqs(AccountNames, MaxAccounts)
    /\ defaultAccount \in {None} \cup {Some(a) : a \in AccountNames}
    /\ envAccount \in {None} \cup {Some(a) : a \in AccountNames}
    /\ explicitAccount \in {None} \cup {Some(a) : a \in AccountNames}
    /\ resolved = NotResolved

\* A slip: the process ends with status 0 whatever happened.
ExitWith_status_zero(status, output) ==
    /\ sessionPc' = "exited"
    /\ exitStatus' = Some(0)
    /\ printed' = printed \o output

ExitWith(status, output) ==
    /\ sessionPc' = "exited"
    /\ exitStatus' = Some(status)
    /\ printed' = printed \o output

\* require_auth: the is_authenticated() gate
Wrapper ==
    /\ sessionPc = "wrapper"
    /\ IF is_authenticated(accounts, credentials)
       THEN /\ sessionPc' = "body"
            /\ UNCHANGED <<printed, exitStatus>>
       ELSE ExitWith(1, ErrorOutput(jsonMode, "NOT_AUTHENTICATED"))
    /\ UNCHANGED <<credentials, jsonMode, session, issued, consent>>
    /\ UNCHANGED <<resolverVars, styleVars, cmdVars, readVars, serviceVars, authVars>>

\* The command tests its heading or role argument before it calls a service.
RejectArgument ==
    /\ sessionPc = "body"
    /\ RejectedArgument(session) # None
    /\ ExitWith(1, EchoOutput(RejectedArgument(session)[1]))
    /\ UNCHANGED <<credentials, jsonMode, session, issued, consent>>
    /\ UNCHANGED <<resolverVars, styleVars, cmdVars, readVars, serviceVars, authVars>>

\* delete_command without --force: typer.confirm, and typer.Abort (the line
\* "Aborted!" and exit status 1) when the answer is no.
Confirm ==
    /\ sessionPc = "body"
    /\ NeedsConsent(session)
    /\ consent = None
    /\ \E answer \in BOOLEAN :
          /\ consent' = Some(answer)
          /\ IF answer
             THEN UNCHANGED <<sessionPc, printed, exitStatus>>
             ELSE ExitWith(1, <<Text("Aborted")>>)
    /\ UNCHANGED <<credentials, jsonMode, session, issued>>
    /\ UNCHANGED <<resolverVars, styleVars, cmdVars, readVars, serviceVars, authVars>>

\* The command calls its service function: get_docs_service(account) loads
\* the credential, then the request ends ok, with TokenExpiredError(account)
\* or with an HttpError.  require_auth catches TokenExpiredError only.
CallService ==
    /\ sessionPc = "body"
    /\ RejectedArgument(session) = None
    /\ NeedsConsent(session) => consent = Some(TRUE)
    /\ resolved' = RunsAs(accounts, defaultAccount, envAccount, explicitAccount)
    /\ IF resolved'.kind # "returned" \/ resolved'.account \notin credentials
       THEN \* raise Exception("Not authenticated. Run 'gdocs auth login' first.")
            /\ ExitWith(1, <<Traceback("Exception")>>)
            /\ issued' = Append(issued, ServiceCall(CalledFirst(session.name),
                                                    "NotAuthenticated"))
            /\ UNCHANGED credentials
       ELSE \E result \in {"ok", "TokenExpiredError", "HttpError"} :
             /\ issued' = issued \o ServiceCalls(session, result)
             /\ CASE result = "ok" ->
                       /\ IF session.name = "table add-row" /\ ~session.valid
                          THEN ExitWith(1, EchoOutput("table_not_found"))
                          ELSE ExitWith(0, SuccessOutput(jsonMode))
                       /\ UNCHANGED credentials
                 [] result = "TokenExpiredError" ->
                       \* except TokenExpiredError as e: e.account is the
                       \* account argument the command passed on
                       /\ credentials' =
                             IF Truthy(explicitAccount)
                             THEN delete_credentials(credentials, explicitAccount[1])
                             ELSE credentials
                       /\ ExitWith(1, ErrorOutput(jsonMode, "TOKEN_EXPIRED"))
                 [] result = "HttpError" ->
                       /\ ExitWith(1, <<Traceback("HttpError")>>)
                       /\ UNCHANGED credentials
    /\ UNCHANGED <<accounts, defaultAccount, envAccount, explicitAccount>>
    /\ UNCHANGED <<jsonMode, session, consent>>
    /\ UNCHANGED <<styleVars, cmdVars, readVars, serviceVars, authVars>>

-----------------------------------------------------------------------------
(* services/auth.py get_credentials and is_authenticated on the credential *)
(* store, and the credential loads of one command under require_auth.      *)
(* The store is the account list, the default account and one optional     *)
(* credential per account; a credential is what get_credentials looks at:  *)
(* whether it is expired and whether it has a refresh token.               *)

MaxCalls == 2

Credential(is_expired, has_refresh_token) ==
    [expired |-> is_expired, refresh_token |-> has_refresh_token]

\* The credentials a store can hold: usable, expired and refreshable, expired
\* without a refresh token.
Credentials ==
    {Credential(FALSE, TRUE), Credential(TRUE, TRUE), Credential(TRUE, FALSE)}

\* credentials.valid
valid(c) == ~c.expired

Store(accts, dflt, ring) == [accounts |-> accts, default |-> dflt, keyring |-> ring]

\* load_credentials(account=account)
load_credentials(st, account) == st.keyring[account]

\* save_credentials(credentials, account=account): the credential is stored
\* under the account, a new account is added to the list and the first
\* account becomes the default.
save_credentials(st, c, account) ==
    Store(IF account \in Range(st.accounts) THEN st.accounts
          ELSE Append(st.accounts, account),
          IF st.accounts = <<>> THEN Some(account) ELSE st.default,
          [st.keyring EXCEPT ![account] = Some(c)])

\* delete_credentials(account=account) on the whole store: the credential and
\* the list entry go, and a deleted default moves to a remaining account.
remove_credentials(st, account) ==
    LET IsOther(a) == a # account
        remaining == SelectSeq(st.accounts, IsOther)
    IN  Store(remaining,
              IF st.default = Some(account)
              THEN IF remaining # <<>> THEN Some(remaining[1]) ELSE None
              ELSE st.default,
              [st.keyring EXCEPT ![account] = None])

\* What one call of get_credentials did: the account it loaded for (None
\* when no account could be resolved), what it found there, whether the
\* refresh it attempted went through, what it returned and the store after.
Loaded(account, found, refresh, returned, st) ==
    [account |-> account, found |-> found, refresh |-> refresh,
     returned |-> returned, store |-> st]

\* A slip: an expired credential without a refresh token is deleted too.
get_credentials_deleting_stale(st, env, account, refresh_ok) ==
    LET r == IF account = None
             THEN resolve_account(st.accounts, st.default, env, None)
             ELSE Returned(account[1])
    IN  IF r.kind # "returned" THEN Loaded(None, None, None, None, st)
        ELSE LET c == load_credentials(st, r.account)
             IN  IF c = None THEN Loaded(Some(r.account), None, None, None, st)
                 ELSE IF c[1].expired /\ c[1].refresh_token /\ refresh_ok
                 THEN LET fresh == [c[1] EXCEPT !.expired = FALSE]
                      IN  Loaded(Some(r.account), c, Some(TRUE), Some(fresh),
                                 save_credentials(st, fresh, r.account))
                 ELSE IF c[1].expired
                 THEN Loaded(Some(r.account), c, Some(FALSE), None,
                             remove_credentials(st, r.account))
                 ELSE Loaded(Some(r.account), c, None, c, st)

\* get_credentials(account): refresh_ok is whether credentials.refresh and
\* the save after it go through.
get_credentials(st, env, account, refresh_ok) ==
    LET r == IF account = None
             THEN resolve_account(st.accounts, st.default, env, None)
             ELSE Returned(account[1])
    IN  IF r.kind # "returned" THEN Loaded(None, None, None, None, st)
        ELSE LET c == load_credentials(st, r.account)
             IN  IF c = None THEN Loaded(Some(r.account), None, None, None, st)
                 ELSE IF c[1].expired /\ c[1].refresh_token
                 THEN IF refresh_ok
                      THEN LET fresh == [c[1] EXCEPT !.expired = FALSE]
                           IN  Loaded(Some(r.account), c, Some(TRUE), Some(fresh),
                                      save_credentials(st, fresh, r.account))
                      ELSE Loaded(Some(r.account), c, Some(FALSE), None,
                                  remove_credentials(st, r.account))
                 ELSE Loaded(Some(r.account), c, None, c, st)

\* is_authenticated() without an account: the first configured account.
is_authenticated_first(st, env, refresh_ok) ==
    IF st.accounts = <<>> THEN Loaded(None, None, None, None, st)
    ELSE get_credentials(st, env, Some(st.accounts[1]), refresh_ok)

\* `credentials is not None and credentials.valid`
Authenticated(load) == load.returned # None /\ valid(load.returned[1])

\* A slip: the service is built without credentials and the command goes on.
NotAuthenticated_ignored(load) == FALSE

\* get_docs_service: `if not credentials: raise Exception("Not authenticated...")`
NotAuthenticated(load) == load.returned = None

NoLoad == [by |-> "none", before |-> Store(<<>>, None, <<>>),
           load |-> Loaded(None, None, None, None, Store(<<>>, None, <<>>))]

CurrentStore == Store(accounts, defaultAccount, keyring)

\* The store of a process about to start: a credential is kept only for a
\* listed account.
InitAuth ==
    /\ accounts \in DistinctSeqs(AccountNames, MaxAccounts)
    /\ defaultAccount \in {None} \cup {Some(a) : a \in AccountNames}
    /\ envAccount \in {None} \cup {Some(a) : a \in AccountNames}
    /\ explicitAccount \in {None} \cup {Some(a) : a \in AccountNames}
    /\ resolved = NotResolved
    /\ keyring \in [AccountNames -> {None} \cup {Some(c) : c \in Credentials}]
    /\ \A a \in AccountNames : a \notin Range(accounts) => keyring[a] = None
    /\ authPc = "gate"
    /\ loads = <<>>
    /\ remote = <<>>
    /\ lastLoad = NoLoad
    /\ authOutcome = "running"

IdleAuth ==
    /\ keyring = <<>>
    /\ authPc = "exited"
    /\ loads = <<>>
    /\ remote = <<>>
    /\ lastLoad = NoLoad
    /\ authOutcome = "running"

\* The store after a call of get_credentials.
StoreBecomes(st) ==
    /\ accounts' = st.accounts
    /\ defaultAccount' = st.default
    /\ keyring' = st.keyring

\* require_auth: `if not is_authenticated():`
Gate ==
    /\ authPc = "gate"
    /\ \E refresh_ok \in BOOLEAN :
          LET load == is_authenticated_first(CurrentStore, envAccount, refresh_ok)
          IN  /\ StoreBecomes(load.store)
              /\ lastLoad' = [by |-> "gate", before |-> CurrentStore, load |-> load]
              /\ IF Authenticated(load)
                 THEN authPc' = "body" /\ authOutcome' = authOutcome
                 ELSE authPc' = "exited" /\ authOutcome' = "NOT_AUTHENTICATED"
    /\ UNCHANGED <<envAccount, explicitAccount, resolved, loads, remote>>
    /\ UNCHANGED <<styleVars, cmdVars, readVars, serviceVars, sessionVars>>

\* One service call of the command body: get_docs_service(account) loads the
\* credential, then the request ends ok, with TokenExpiredError(account) or
\* with an HttpError.
ServiceCallStep ==
    /\ authPc = "body"
    /\ Len(loads) < MaxCalls
    /\ \E refresh_ok \in BOOLEAN, result \in {"ok", "TokenExpiredError", "HttpError"} :
          LET load == get_credentials(CurrentStore, envAccount, explicitAccount,
                                      refresh_ok)
          IN  /\ lastLoad' = [by |-> "body", before |-> CurrentStore, load |-> load]
              /\ loads' = Append(loads, load.account)
              /\ IF NotAuthenticated(load)
                 THEN /\ StoreBecomes(load.store)
                      /\ remote' = remote
                      /\ authPc' = "exited"
                      /\ authOutcome' = "Exception"
                 ELSE /\ remote' = Append(remote, load.account)
                      /\ CASE result = "ok" ->
                                /\ StoreBecomes(load.store)
                                /\ UNCHANGED <<authPc, authOutcome>>
                           [] result = "TokenExpiredError" ->
                                \* except TokenExpiredError as e: if e.account
                                /\ StoreBecomes(
                                      IF Truthy(explicitAccount)
                                      THEN remove_credentials(load.store,
                                                              explicitAccount[1])
                                      ELSE load.store)
                                /\ authPc' = "exited"
                                /\ authOutcome' = "TOKEN_EXPIRED"
                           [] result = "HttpError" ->
                                /\ StoreBecomes(load.store)
                                /\ authPc' = "exited"
                                /\ authOutcome' = "HttpError"
    /\ UNCHANGED <<envAccount, explicitAccount, resolved>>
    /\ UNCHANGED <<styleVars, cmdVars, readVars, serviceVars, sessionVars>>

\* The command body returns after its service calls.
BodyReturns ==
    /\ authPc = "body"
    /\ loads # <<>>
    /\ authPc' = "exited"
    /\ authOutcome' = "success"
    /\ UNCHANGED <<keyring, loads, remote, lastLoad>>
    /\ UNCHANGED <<resolverVars, styleVars, cmdVars, readVars, serviceVars, sessionVars>>

\* Time passes between two service calls: a usable access token expires.
TokenExpires ==
    /\ authPc = "body"
    /\ loads # <<>>
    /\ \E a \in AccountNames :
          /\ keyring[a] # None
          /\ valid(keyring[a][1])
          /\ keyring' = [keyring EXCEPT ![a] = Some([keyring[a][1] EXCEPT !.expired = TRUE])]
    /\ UNCHANGED <<authPc, loads, remote, lastLoad, authOutcome>>
    /\ UNCHANGED <<resolverVars, styleVars, cmdVars, readVars, serviceVars, sessionVars>>

-----------------------------------------------------------------------------
(* The specifications. *)

\* resolve_account applied to every store and every pair of inputs.
InitResolve ==
    /\ InitResolver /\ IdleStyle /\ IdleCommand
    /\ IdleRead /\ IdleService /\ IdleSession /\ IdleAuth
NextResolve == ResolveAccount
SpecResolve == InitResolve /\ [][NextResolve]_vars

\* The style builders applied to every style.
InitBuild ==
    /\ IdleResolver /\ InitStyle /\ IdleCommand
    /\ IdleRead /\ IdleService /\ IdleSession /\ IdleAuth
NextBuild == BuildTextStyle \/ BuildParagraphStyle
SpecBuild == InitBuild /\ [][NextBuild]_vars

\* The readers applied to every body of the bounded set.
InitReadSpec ==
    /\ IdleResolver /\ IdleStyle /\ IdleCommand
    /\ InitRead /\ IdleService /\ IdleSession /\ IdleAuth
NextRead == LocateTables \/ ReadMarkdown \/ ReadPlain \/ RenderTable
SpecRead == InitReadSpec /\ [][NextRead]_vars

\* One call of every service function, with every sequence of responses.
\* The loop of _execute_with_retry is bounded and nothing else can run in
\* the process, so every enabled step is eventually taken.
InitServiceSpec ==
    /\ IdleResolver /\ IdleStyle /\ IdleCommand
    /\ IdleRead /\ InitService /\ IdleSession /\ IdleAuth
NextService == BuildRequest \/ ExecuteInLoop \/ ExecuteFinal \/ ExecuteDirect
SpecService == InitServiceSpec /\ [][NextService]_vars /\ WF_vars(NextService)

\* One command under require_auth, for every store and output mode.
InitSessionSpec ==
    /\ InitSessionStore /\ IdleStyle /\ IdleCommand
    /\ IdleRead /\ IdleService /\ InitSession /\ IdleAuth
NextSession == Wrapper \/ RejectArgument \/ Confirm \/ CallService
SpecSession == InitSessionSpec /\ [][NextSession]_vars

\* The credential loads of one command, for every store.
InitAuthSpec ==
    /\ InitAuth /\ IdleStyle /\ IdleCommand
    /\ IdleRead /\ IdleService /\ IdleSession
NextAuth == Gate \/ ServiceCallStep \/ BodyReturns \/ TokenExpires
SpecAuth == InitAuthSpec /\ [][NextAuth]_vars

\* One command invocation (one process) on every document of the bounded set.
Init ==
    /\ IdleResolver /\ IdleStyle /\ InitCommand
    /\ IdleRead /\ IdleService /\ IdleSession /\ IdleAuth
Next ==
    \/ Invoke
    \/ InsertCommand
    \/ AppendPlain
    \/ AppendRead
    \/ AppendBatch
    \/ AppendReread
    \/ AppendStyle
    \/ FromFileCommand
    \/ ReplaceCommand
    \/ TableRead
    \/ TableBatch
    \/ ExternalEdit
Spec == Init /\ [][Next]_vars

-----------------------------------------------------------------------------
(* Properties of resolve_account, under SpecResolve. *)

\* The optional string names an account (it is neither None nor empty).
Names(o) == o # <<>> /\ o[1] # ""
Configured(a) == \E i \in 1..Len(accounts) : accounts[i] = a
HasResolved == resolved.kind # "pending"

\* C1: resolve_account returns the first match of (1) the explicit account,
\* (2) the GDOCS_ACCOUNT account, (3) the default if it is still in the
\* configured list, (4) the first configured account; with neither input and
\* an empty list it raises NoAccountConfiguredError.
C1_FirstMatchWins ==
    HasResolved =>
        /\ (Names(explicitAccount) /\ Configured(explicitAccount[1]))
              => resolved = Returned(explicitAccount[1])
        /\ (~Names(explicitAccount) /\ Names(envAccount) /\ Configured(envAccount[1]))
              => resolved = Returned(envAccount[1])
        /\ (~Names(explicitAccount) /\ ~Names(envAccount))
              => IF defaultAccount # <<>> /\ Configured(defaultAccount[1])
                 THEN resolved = Returned(defaultAccount[1])
                 ELSE IF Len(accounts) > 0
                 THEN resolved = Returned(accounts[1])
                 ELSE resolved.kind = "NoAccountConfiguredError"

\* A default that is no longer configured was skipped for the first account.
C1_Witness ==
    /\ HasResolved
    /\ ~Names(explicitAccount) /\ ~Names(envAccount)
    /\ defaultAccount # <<>> /\ ~Configured(defaultAccount[1])
    /\ Len(accounts) = 2
    /\ resolved = Returned(accounts[1])

\* C2: a named account (explicit, else GDOCS_ACCOUNT) that is not configured
\* raises AccountNotFoundError with that name and the configured list; there
\* is no fallback, also when GDOCS_ACCOUNT names a configured account.
C2_AbsentNameRaises ==
    HasResolved =>
        /\ (Names(explicitAccount) /\ ~Configured(explicitAccount[1]))
              => resolved = AccountNotFoundError(explicitAccount[1], accounts)
        /\ (~Names(explicitAccount) /\ Names(envAccount) /\ ~Configured(envAccount[1]))
              => resolved = AccountNotFoundError(envAccount[1], accounts)

\* The explicit name is absent while GDOCS_ACCOUNT names a configured account.
C2_Witness ==
    /\ resolved.kind = "AccountNotFoundError"
    /\ Names(explicitAccount) /\ ~Configured(explicitAccount[1])
    /\ Names(envAccount) /\ Configured(envAccount[1])
    /\ resolved.account = explicitAccount[1]
    /\ resolved.available = accounts

-----------------------------------------------------------------------------
(* Properties of the style builders, under SpecBuild. *)

\* The TextStyle field behind each key of the textStyle object.
TextStyleField(key) ==
    CASE key = "fontSize" -> "font_size"
      [] key = "weightedFontFamily" -> "font_family"
      [] key = "link" -> "link_url"
      [] key = "foregroundColor" -> "foreground_color"
      [] key = "backgroundColor" -> "background_color"
      [] OTHER -> key

TextStyleSet(key) ==
    textStyle[TextStyleField(key)] # DefaultTextStyle[TextStyleField(key)]

\* C3: the field list of update_text_style_request names exactly the fields
\* the caller set to a non-default value, and textStyle has exactly those keys.
C3_FieldsAreTheNonDefaultOnes ==
    "updateTextStyle" \in DOMAIN styleRequest =>
        LET expected == SelectSeq(TextStyleKeys, TextStyleSet)
        IN  /\ styleRequest.updateTextStyle.fields = Join(expected, ",")
            /\ DOMAIN styleRequest.updateTextStyle.textStyle
                  = {expected[i] : i \in 1..Len(expected)}

\* The keys of the paragraphStyle object, in the order of the ParagraphStyle fields.
ParagraphStyleFieldKeys ==
    <<"namedStyleType", "alignment", "lineSpacing", "spaceAbove", "spaceBelow",
      "indentFirstLine">>

ParagraphStyleField(key) ==
    CASE key = "namedStyleType" -> "named_style"
      [] key = "alignment" -> "alignment"
      [] key = "lineSpacing" -> "line_spacing"
      [] key = "spaceAbove" -> "space_above_pt"
      [] key = "spaceBelow" -> "space_below_pt"
      [] key = "indentFirstLine" -> "indent_first_line_pt"

ParagraphStyleSet(key) ==
    paragraphStyle[ParagraphStyleField(key)]
        # DefaultParagraphStyle[ParagraphStyleField(key)]

\* C4: update_paragraph_style_request puts a field in the paragraphStyle
\* object and in the field list only if the caller gave it a non-default
\* value (namedStyleType is not named for a style that sets only the
\* alignment), and a non-default line spacing is emitted.
C4_ParagraphFieldsAreTheNonDefaultOnes ==
    "updateParagraphStyle" \in DOMAIN styleRequest =>
        LET expected == SelectSeq(ParagraphStyleFieldKeys, ParagraphStyleSet)
        IN  /\ styleRequest.updateParagraphStyle.fields = Join(expected, ",")
            /\ DOMAIN styleRequest.updateParagraphStyle.paragraphStyle
                  = {expected[i] : i \in 1..Len(expected)}

-----------------------------------------------------------------------------
(* Properties of the content commands, under Spec. *)

Exited == pc = "exited"
Succeeded == Exited /\ outcome.kind = "success"
IsRead(call) == call.api = "documents.get"
IsBatch(call) == call.api = "documents.batchUpdate"

\* The heading option names a member of the named-style enum, whatever its case.
HeadingNamesStyle ==
    /\ cmd.heading # <<>>
    /\ cmd.heading[1] # ""
    /\ \E h \in NamedStyleType : Upper(cmd.heading[1]) = h

\* The heading option is given and names no member of the enum.
HeadingInvalid ==
    /\ cmd.heading # <<>>
    /\ cmd.heading[1] # ""
    /\ \A h \in NamedStyleType : Upper(cmd.heading[1]) # h

\* C5: insert with a valid heading H submits exactly one batch and reads
\* nothing; the batch is insertText(T + newline, I), then updateParagraphStyle
\* over [I, I + len(T) + 1) with namedStyleType H and fields namedStyleType,
\* then, only with --bold or --italic, updateTextStyle over [I, I + len(T)).
C5_InsertIsOneBatch ==
    (cmd.name = "insert" /\ HeadingNamesStyle) =>
        /\ Len(calls) <= 1
        /\ Succeeded => Len(calls) = 1
        /\ \A k \in 1..Len(calls) :
              LET requests == calls[k].requests
                  I == cmd.index
                  n == Len(cmd.text)
              IN  /\ IsBatch(calls[k])
                  /\ Len(requests) = IF cmd.bold \/ cmd.italic THEN 3 ELSE 2
                  /\ requests[1] = [insertText |-> [location |-> [index |-> I],
                                                     text |-> cmd.text \o "\n"]]
                  /\ requests[2] =
                        [updateParagraphStyle |->
                            [range |-> [startIndex |-> I, endIndex |-> I + n + 1],
                             paragraphStyle |->
                                [namedStyleType |-> Upper(cmd.heading[1])],
                             fields |-> "namedStyleType"]]
                  /\ (cmd.bold \/ cmd.italic) =>
                        /\ DOMAIN requests[3] = {"updateTextStyle"}
                        /\ requests[3].updateTextStyle.range
                              = [startIndex |-> I, endIndex |-> I + n]

\* "Title" inserted at index 1 with HEADING_1, given in lower case or not.
C5_Witness ==
    /\ Succeeded
    /\ cmd.name = "insert" /\ cmd.text = "Title" /\ cmd.index = 1
    /\ cmd.heading = <<"HEADING_1">> /\ ~cmd.bold /\ ~cmd.italic
    /\ calls[1].requests =
          << [insertText |-> [location |-> [index |-> 1], text |-> "Title\n"]],
             [updateParagraphStyle |->
                [range |-> [startIndex |-> 1, endIndex |-> 7],
                 paragraphStyle |-> [namedStyleType |-> "HEADING_1"],
                 fields |-> "namedStyleType"]] >>

\* The endIndex of the last body element of the response of call k.
EndIndexRead(k) ==
    LET content == calls[k].response.body.content
    IN  content[Len(content)].endIndex

\* C6: append with a valid heading issues, in this order, a read (E0 is the
\* end of its last element), the batch with the one end-of-segment insertion
\* of text + newline, a second read (E1), and a batch with one
\* updateParagraphStyle over [E0, E1 - 1); no call is issued before the one
\* before it has returned successfully.
C6_AppendOrder ==
    (cmd.name = "append" /\ HeadingNamesStyle) =>
        /\ Len(calls) <= 4
        /\ Succeeded => Len(calls) = 4
        /\ \A k \in 1..Len(calls) :
              /\ IF k \in {1, 3} THEN IsRead(calls[k]) ELSE IsBatch(calls[k])
              /\ k < Len(calls) => calls[k].result = "ok"
        /\ Len(calls) >= 2 =>
              calls[2].requests =
                  << [insertText |-> [endOfSegmentLocation |-> <<>>,
                                      text |-> cmd.text \o "\n"]] >>
        /\ Len(calls) = 4 =>
              LET E0 == IF calls[1].response.body.content = <<>> THEN 1
                        ELSE EndIndexRead(1)
                  E1 == EndIndexRead(3)
              IN  calls[4].requests =
                      << [updateParagraphStyle |->
                            [range |-> [startIndex |-> E0, endIndex |-> E1 - 1],
                             paragraphStyle |->
                                [namedStyleType |-> Upper(cmd.heading[1])],
                             fields |-> "namedStyleType"]] >>

\* All four calls were made, and another editor changed the body in between.
C6_Witness ==
    /\ Succeeded
    /\ cmd.name = "append" /\ cmd.text = "Title" /\ HeadingNamesStyle
    /\ Len(calls) = 4
    /\ calls[1].response.body.content # <<>>
    /\ EndIndexRead(3) # EndIndexRead(1) + Len(cmd.text) + 1

\* C7: an invalid heading name given to insert or append is reported as
\* "Invalid heading" with exit status 1 before any network call: no read and
\* no batch update is issued.
C7_InvalidHeadingFailsFast ==
    (cmd.name \in {"insert", "append"} /\ HeadingInvalid) =>
        /\ calls = <<>>
        /\ (Exited /\ outcome.kind # "NOT_AUTHENTICATED")
              => outcome = Exit("invalid_heading", 1, <<cmd.heading[1]>>)

-----------------------------------------------------------------------------
(* Properties of the table commands, under Spec. *)

IsTableCommand == cmd.name \in TableCommandNames

RECURSIVE TableStarts(_)
\* The start indices of the table elements of a body, in document order.
TableStarts(content) ==
    IF content = <<>> THEN <<>>
    ELSE IF "table" \in DOMAIN Head(content)
         THEN <<Head(content).startIndex>> \o TableStarts(Tail(content))
         ELSE TableStarts(Tail(content))

\* The table start index a submitted table operation addresses.
AddressedStart(request) ==
    LET body == request[CHOOSE key \in DOMAIN request : TRUE]
    IN  body.tableCellLocation.tableStartLocation.index

C9_IndexBeyondTablesIsReported ==
    (IsTableCommand /\ Len(calls) >= 1 /\ calls[1].result = "ok") =>
        LET N == Len(TableStarts(calls[1].response.body.content))
        IN  cmd.table_index >= N =>
                /\ outcome = Exit("table_not_found", 1, <<cmd.table_index, N>>)
                /\ Exited
                /\ Len(calls) = 1

\* Ordinal 2 was requested on a document with two tables.
C9_Witness ==
    /\ Exited /\ IsTableCommand
    /\ cmd.table_index = 2
    /\ Len(calls) = 1
    /\ Len(TableStarts(calls[1].response.body.content)) = 2
    /\ outcome.kind = "table_not_found"

\* C10 as stated: when the command ends with the table-not-found error, no
\* remote call, neither a read nor a batch update, was issued.
C10_NotFoundBeforeAnyCall ==
    outcome.kind = "table_not_found" => calls = <<>>

\* C10 as amended: when the command ends with the table-not-found error,
\* exactly one remote call was issued, the document read, and no batch update.
C10_NotFoundAfterOneRead ==
    outcome.kind = "table_not_found" =>
        /\ Len(calls) = 1
        /\ IsRead(calls[1])
        /\ calls[1].result = "ok"

\* The error was reported for a document without tables.
C10_Witness ==
    /\ Exited
    /\ outcome = Exit("table_not_found", 1, <<0, 0>>)
    /\ Len(calls) = 1

-----------------------------------------------------------------------------
(* Properties of the document tree readers, under SpecRead. *)

RECURSIVE SplitLines(_)
\* The lines of a text: each ends at a newline or at the end of the text.
SplitLines(s) ==
    IF s = <<>> THEN <<>>
    ELSE LET ends == {i \in 1..Len(s) : s[i] = "\n"}
         IN  IF ends = {} THEN <<s>>
             ELSE LET first == CHOOSE i \in ends : \A j \in ends : i <= j
                  IN  <<SubSeq(s, 1, first - 1)>>
                      \o SplitLines(SubSeq(s, first + 1, Len(s)))

NotBlank(line) == line # <<>>

\* The positions of the table elements in the top-level sequence.
TopLevelTables == {k \in 1..Len(bodyContent) : IsTable(bodyContent[k])}

\* The position of the i-th table element of the top-level sequence.
NthTopLevelTable(i) ==
    CHOOSE k \in TopLevelTables : Cardinality({j \in TopLevelTables : j <= k}) = i

HoldsNestedTable(element) ==
    /\ IsTable(element)
    /\ \E r \in 1..Len(element.table.tableRows) :
          \E c \in 1..Len(element.table.tableRows[r].tableCells) :
             \E j \in 1..Len(element.table.tableRows[r].tableCells[c].content) :
                IsTable(element.table.tableRows[r].tableCells[c].content[j])

\* C11: _find_tables returns one entry per table element of the top-level
\* body sequence, in document order, each with that element's start index,
\* end index, row count and column count, so the start indices increase
\* with the ordinal; tables inside table cells produce no entry.
C11_OneEntryPerTopLevelTable ==
    projection.reader = "_find_tables" =>
        /\ Len(projection.out) = Cardinality(TopLevelTables)
        /\ \A i \in 1..Len(projection.out) :
              LET element == bodyContent[NthTopLevelTable(i)]
              IN  projection.out[i] =
                      [start_index |-> element.startIndex,
                       end_index |-> element.endIndex,
                       rows |-> element.table.rows,
                       columns |-> element.table.columns]
        /\ \A i, j \in 1..Len(projection.out) :
              i < j => projection.out[i].start_index < projection.out[j].start_index

\* Two top-level tables, one of them holding a nested table, were located.
C11_Witness ==
    /\ projection.reader = "_find_tables"
    /\ Len(projection.out) = 2
    /\ projection.out[1].start_index < projection.out[2].start_index
    /\ \E k \in 1..Len(bodyContent) : HoldsNestedTable(bodyContent[k])

\* The text of a paragraph without its trailing newlines.
ParagraphText(element) ==
    RStripIn(_extract_text_from_paragraph(element.paragraph), {"\n"})

NamedStyleOf(element) ==
    IF "paragraphStyle" \in DOMAIN element.paragraph
    THEN element.paragraph.paragraphStyle.namedStyleType
    ELSE "none"

\* The line a paragraph with text is to give, by its named style.
StyledLine(element) ==
    LET text == ParagraphText(element)
        named == NamedStyleOf(element)
    IN  CASE named \in {"TITLE", "HEADING_1"} -> <<"#", " ">> \o text
          [] named = "HEADING_2" -> <<"#", "#", " ">> \o text
          [] named = "HEADING_3" -> <<"#", "#", "#", " ">> \o text
          [] named = "HEADING_4" -> <<"#", "#", "#", "#", " ">> \o text
          [] named = "HEADING_5" -> <<"#", "#", "#", "#", "#", " ">> \o text
          [] named = "HEADING_6" -> <<"#", "#", "#", "#", "#", "#", " ">> \o text
          [] named = "SUBTITLE" -> <<"*">> \o text \o <<"*">>
          [] named \in {"NORMAL_TEXT", "none"} -> text

\* The lines the elements of the body are to give, in document order: one
\* per paragraph with text, none per paragraph without, the rendering's
\* lines per table.
ExpectedLines ==
    Concat([k \in 1..Len(bodyContent) |->
               IF IsParagraph(bodyContent[k])
               THEN IF ParagraphText(bodyContent[k]) = <<>> THEN <<>>
                    ELSE <<StyledLine(bodyContent[k])>>
               ELSE SelectSeq(SplitLines(_table_to_markdown(bodyContent[k].table)),
                              NotBlank)])

\* C12: the Markdown projection gives, for each top-level paragraph in
\* document order, exactly one line determined by its named style (TITLE and
\* HEADING_1 one '#', HEADING_2..6 two to six, SUBTITLE wrapped in '*',
\* NORMAL_TEXT or no style the bare text); a paragraph without text after
\* its trailing newlines are removed gives nothing, so a body of one
\* paragraph renders as exactly its one line and a body of empty paragraphs
\* as nothing.
C12_OneLinePerParagraph ==
    projection.reader = "_content_to_markdown" =>
        /\ SelectSeq(SplitLines(projection.out), NotBlank) = ExpectedLines
        /\ (\A k \in 1..Len(bodyContent) : IsParagraph(bodyContent[k]))
              /\ Len(ExpectedLines) = 1
              => projection.out = ExpectedLines[1] \o <<"\n">>
        /\ ExpectedLines = <<>> => projection.out = <<>>

\* A TITLE paragraph followed by an empty paragraph rendered as one line.
C12_Witness ==
    /\ projection.reader = "_content_to_markdown"
    /\ Len(bodyContent) = 2
    /\ IsParagraph(bodyContent[1]) /\ NamedStyleOf(bodyContent[1]) = "TITLE"
    /\ ParagraphText(bodyContent[1]) # <<>>
    /\ IsParagraph(bodyContent[2]) /\ ParagraphText(bodyContent[2]) = <<>>
    /\ projection.out = <<"#", " ", "H", "e", "l", "l", "o", "\n">>

\* The table that was rendered.
RenderedTable == bodyContent[projection.at].table

\* C13: a table of R >= 1 rows renders as exactly R + 1 lines: a pipe row
\* per table row and, immediately after the first row and nowhere else, a
\* separator row of '---' cells with as many cells as the first row.
C13_TableHasOneMoreLineThanRows ==
    projection.reader = "_table_to_markdown" /\ Len(RenderedTable.tableRows) >= 1 =>
        LET lines == SplitLines(projection.out)
            separator ==
                PipeRow([k \in 1..Len(RenderedTable.tableRows[1].tableCells) |-> Dashes])
        IN  /\ Len(lines) = Len(RenderedTable.tableRows) + 1
            /\ lines[2] = separator
            /\ \A i \in 1..Len(lines) : i # 2 => lines[i] # separator

\* A cell's run contents with the trailing newlines removed.
CellTextKeepingLead(cell) ==
    LET paragraphs == SelectSeq(cell.content, IsParagraph)
    IN  RStripIn(Concat([k \in 1..Len(paragraphs) |->
                            _extract_text_from_paragraph(paragraphs[k].paragraph)]),
                 {"\n"})

\* The rows of a table, the cells of a row joined with tabs.
TabbedRows(table) ==
    [r \in 1..Len(table.tableRows) |->
        JoinText([c \in 1..Len(table.tableRows[r].tableCells) |->
                     CellTextKeepingLead(table.tableRows[r].tableCells[c])],
                 <<"\t">>)]

\* C14: in plain-text mode the text of a table is its rows, each ended or
\* separated by a newline, the cells of a row joined with a tab between
\* cells (k cells, k - 1 tabs), each cell's text being its run contents
\* with only the trailing newlines removed.
C14_TabsBetweenCells ==
    projection.reader = "_extract_text_from_content"
        /\ Len(bodyContent) = 1 /\ IsTable(bodyContent[1]) =>
        LET rows == TabbedRows(bodyContent[1].table)
        IN  \/ projection.out = JoinText(rows, <<"\n">>)
            \/ projection.out = JoinText(rows, <<"\n">>) \o <<"\n">>

-----------------------------------------------------------------------------
(* Properties of _execute_with_retry and the service functions, under     *)
(* SpecService.                                                            *)

\* The request the function is at is one it gave to _execute_with_retry.
InRetryWrapper ==
    /\ step <= Len(Requests(service))
    /\ Requests(service)[step].wrapped
    /\ servicePc \in {"loop", "final", "done"}

\* The requests given to _execute_with_retry so far, with the executions
\* and delays of each: the finished ones and the one the function is at.
WrappedSoFar ==
    SelectSeq(requested, LAMBDA q : q.wrapped)
    \o (IF InRetryWrapper /\ raised.kind # "returned"
        THEN <<Requested(Requests(service)[step], executed, slept)>>
        ELSE <<>>)

\* C15: whatever the responses, an HTTP 401 at any execution inside
\* _execute_with_retry, the last one after earlier 429 responses included,
\* makes the call raise TokenExpiredError carrying the account, never a
\* plain HttpError.
C15_Every401IsTokenExpired ==
    InRetryWrapper /\ 401 \in Range(executed) =>
        raised = TokenExpiredError(service.account)

\* Every request given to _execute_with_retry is executed at most
\* MAX_RETRIES + 1 times, again only after a 429 and a wait of 1, 2, 4; a
\* 429 at the last execution is raised; a first success is the only execution.
RetryIsBounded ==
    \A k \in 1..Len(WrappedSoFar) :
        LET q == WrappedSoFar[k]
            current == k = Len(WrappedSoFar) /\ InRetryWrapper /\ raised.kind # "returned"
        IN  /\ Len(q.executed) <= MAX_RETRIES + 1
            /\ \A i \in 1..(Len(q.executed) - 1) : q.executed[i] = 429
            /\ q.slept = [i \in 1..Len(q.slept) |-> CASE i = 1 -> 1 [] i = 2 -> 2 [] i = 3 -> 4]
            /\ Len(q.slept) = Cardinality({i \in 1..MAX_RETRIES :
                                              i <= Len(q.executed) /\ q.executed[i] = 429})
            /\ current /\ Len(q.executed) = MAX_RETRIES + 1
                  /\ q.executed[MAX_RETRIES + 1] = 429
                  => servicePc = "done" /\ raised = HttpError(429)
            /\ q.executed # <<>> /\ q.executed[1] = 200
                  => Len(q.executed) = 1 /\ ~current

\* C16: _execute_with_retry always terminates: it executes the request at
\* most MAX_RETRIES + 1 = 4 times, again only after a 429, after a wait of
\* BASE_DELAY * 2^attempt (1, 2, 4) before the 2nd, 3rd and 4th execution; a
\* 429 at the 4th execution is raised to the caller; a first execution that
\* succeeds returns its response after that one execution.
C16_Terminates ==
    /\ []RetryIsBounded
    /\ <>(servicePc = "done")

\* A request was executed four times, with waits of 1, 2 and 4, and the
\* fourth 429 was raised.
C16_Witness ==
    /\ InRetryWrapper
    /\ servicePc = "done"
    /\ executed = <<429, 429, 429, 429>>
    /\ slept = <<1, 2, 4>>
    /\ raised = HttpError(429)

\* C17: an execution inside _execute_with_retry that fails with a status
\* other than 401 and 429 ends the call at once with that error: it is the
\* last execution, no wait follows it, whatever 429 responses came before.
C17_OtherErrorsAreRaisedAtOnce ==
    InRetryWrapper =>
        \A i \in 1..Len(executed) :
            executed[i] \notin {200, 401, 429} =>
                /\ i = Len(executed)
                /\ servicePc = "done"
                /\ raised = HttpError(executed[i])
                /\ Len(slept) = i - 1

\* A 500 after two 429 responses was raised after two waits.
C17_Witness ==
    /\ InRetryWrapper
    /\ executed = <<429, 429, 500>>
    /\ slept = <<1, 2>>
    /\ raised = HttpError(500)

\* C18: every remote request of a service function is executed through
\* _execute_with_retry, the parent lookup of move_document and the parent
\* lookup and the move of create_document with a folder included.
C18_EveryRequestIsWrapped ==
    /\ servicePc # "direct"
    /\ \A k \in 1..Len(requested) : requested[k].wrapped

-----------------------------------------------------------------------------
(* Properties of a command under require_auth, under SpecSession. *)

EndedWith(code) ==
    /\ sessionPc = "exited"
    /\ \E i \in 1..Len(printed) : printed[i].code = code

\* C19: when a command ends with the token-expired condition, the stored
\* credential of the account the command ran as has been deleted before the
\* process exits, whether the account came from --account or was resolved
\* from the environment, the default or the first configured account.
C19_ExpiredCredentialIsDeleted ==
    EndedWith("TOKEN_EXPIRED") =>
        /\ resolved.kind = "returned"
        /\ resolved.account \notin credentials

\* C20: in JSON-output mode a command that fails prints only the structured
\* error envelope, never human-readable text.
C20_JsonFailuresAreEnvelopes ==
    jsonMode /\ sessionPc = "exited" /\ exitStatus = Some(1) =>
        /\ printed # <<>>
        /\ \A i \in 1..Len(printed) : printed[i].form = "json_error"

-----------------------------------------------------------------------------
(* Further properties of one command invocation, under Spec. *)

IsHeadedAppend == cmd.name = "append" /\ Truthy(cmd.heading)

\* The remote calls of append with a heading, in the order of the code.
AppendSequence ==
    <<"documents.get", "documents.batchUpdate", "documents.get", "documents.batchUpdate">>

IsStyleBatch(requests) ==
    /\ Len(requests) = 1
    /\ DOMAIN requests[1] = {"updateParagraphStyle"}

\* C22: in append with a heading (read, append batch, read, style batch) a
\* remote call that fails is the last call of the command: no later call and
\* no call that undoes the append batch follows it, the calls issued are a
\* prefix of the sequence with the arguments of the code, and the command ends
\* with a failure status instead of reporting that the text was appended.
C22_StopsAtTheFailedCall ==
    IsHeadedAppend =>
        /\ Len(calls) <= Len(AppendSequence)
        /\ \A k \in 1..Len(calls) :
              /\ calls[k].api = AppendSequence[k]
              /\ k = 2 => calls[k].requests = AppendRequests(cmd)
              /\ k = 4 => IsStyleBatch(calls[k].requests)
              /\ calls[k].result # "ok" =>
                    /\ k = Len(calls)
                    /\ Exited
                    /\ outcome.status # 0
                    /\ outcome.kind # "success"

\* The append batch went through and the second read failed.
C22_Witness ==
    /\ IsHeadedAppend
    /\ Len(calls) = 3
    /\ calls[2].result = "ok"
    /\ calls[3].result = "HttpError"
    /\ Exited
    /\ outcome.status = 1

\* The occurrencesChanged value of the first reply of a response, 0 without one.
FirstReplyCount(response) ==
    IF /\ "replies" \in DOMAIN response
       /\ Len(response.replies) >= 1
       /\ "replaceAllText" \in DOMAIN response.replies[1]
       /\ "occurrencesChanged" \in DOMAIN response.replies[1].replaceAllText
    THEN response.replies[1].replaceAllText.occurrencesChanged
    ELSE 0

\* C23: replace submits one batch holding a single replaceAllText descriptor
\* whose matchCase is the command's match-case flag, and the count it reports
\* is the occurrencesChanged value of the first reply, 0 when the response has
\* no replies or the first reply has no replaceAllText count.
C23_ReplaceReportsFirstReply ==
    cmd.name = "replace" /\ calls # <<>> =>
        /\ Len(calls) = 1
        /\ IsBatch(calls[1])
        /\ Len(calls[1].requests) = 1
        /\ DOMAIN calls[1].requests[1] = {"replaceAllText"}
        /\ calls[1].requests[1].replaceAllText.containsText.matchCase = cmd.flag
        /\ calls[1].requests[1].replaceAllText.containsText.text = cmd.text
        /\ calls[1].requests[1].replaceAllText.replaceText = cmd.replace
        /\ Succeeded => outcome.detail = <<FirstReplyCount(calls[1].response)>>
        /\ calls[1].result = "ok" => Succeeded

\* --ignore-case, and the first reply counts two occurrences.
C23_Witness ==
    /\ cmd.name = "replace"
    /\ ~cmd.flag
    /\ Succeeded
    /\ Len(calls) = 1
    /\ calls[1].requests[1].replaceAllText.containsText.matchCase = FALSE
    /\ FirstReplyCount(calls[1].response) = MaxOccurrences
    /\ outcome.detail = <<MaxOccurrences>>

IsInsertion(req) == "insertText" \in DOMAIN req

\* The descriptor addresses an absolute index and nothing else.
AbsoluteOnly(req) ==
    /\ "location" \in DOMAIN req.insertText
    /\ "index" \in DOMAIN req.insertText.location
    /\ "endOfSegmentLocation" \notin DOMAIN req.insertText

\* The descriptor addresses the end of the segment and nothing else.
EndOfSegmentOnly(req) ==
    /\ "endOfSegmentLocation" \in DOMAIN req.insertText
    /\ "index" \notin DOMAIN req.insertText.endOfSegmentLocation
    /\ "location" \notin DOMAIN req.insertText

SegmentIds == {None, Some(""), Some("kix.h1")}

\* C27: insert_text_request builds an absolute-index descriptor without
\* endOfSegmentLocation, insert_text_at_end_request an end-of-segment
\* descriptor without index; append and from-file submit end-of-segment
\* insertions only, insert submits absolute-index insertions only.
C27_AddressingModesAreKeptApart ==
    /\ \A t \in Texts, i \in 1..MaxElements, s \in SegmentIds :
          /\ AbsoluteOnly(insert_text_request(t, i, s))
          /\ insert_text_request(t, i, s).insertText.location.index = i
          /\ EndOfSegmentOnly(insert_text_at_end_request(t, s))
    /\ \A k \in 1..Len(calls) : \A j \in 1..Len(calls[k].requests) :
          LET req == calls[k].requests[j]
          IN  IsInsertion(req) =>
                /\ cmd.name \in {"append", "from-file"} => EndOfSegmentOnly(req)
                /\ cmd.name = "insert" =>
                      AbsoluteOnly(req) /\ req.insertText.location.index = cmd.index

\* An append with a heading has read the document and then submitted its
\* insertion.
C27_Witness ==
    /\ IsHeadedAppend
    /\ Len(calls) >= 2
    /\ IsRead(calls[1])
    /\ calls[2].result = "ok"
    /\ IsInsertion(calls[2].requests[1])
    /\ EndOfSegmentOnly(calls[2].requests[1])

\* C28: with N tables found, a table command submits a batch only when
\* 0 <= table_index < N; for every other index, negative ones included, it
\* reports table not found and submits nothing.
C28_OnlyIndicesInRangeSelect ==
    IsTableCommand /\ calls # <<>> /\ calls[1].result = "ok" =>
        IF 0 <= cmd.table_index /\ cmd.table_index < Len(locals.tables)
        THEN pc = "table_batch" \/ Len(calls) = 2
        ELSE /\ Exited
             /\ outcome.kind = "table_not_found"
             /\ Len(calls) = 1

\* The document a documents.get response describes.
DocumentOf(response) ==
    LET content == response.body.content
    IN  [k \in 1..Len(content) |->
            IF IsTable(content[k])
            THEN TableElement(content[k].table.rows, content[k].table.columns)
            ELSE Paragraph(content[k].endIndex - content[k].startIndex)]

\* The second read saw the document of the first read with the append batch
\* applied to it and no other change.
NoEditBetweenReads ==
    calls[3].response =
        DocumentResponse(ApplyBatch(DocumentOf(calls[1].response),
                                    calls[2].requests).doc)

\* C29: in append with a heading, when no other editor changes the document
\* between the two reads, the style range [E0, E1 - 1) is well formed and
\* non-empty for every appended text, the empty text included.
C29_StyleRangeIsNonEmpty ==
    /\ IsHeadedAppend
    /\ Len(calls) >= 3
    /\ calls[2].result = "ok"
    /\ calls[3].result = "ok"
    /\ NoEditBetweenReads
    => /\ 0 <= locals.end_index
       /\ locals.end_index < locals.new_end - 1

-----------------------------------------------------------------------------
(* Further properties of a command under require_auth, under SpecSession. *)

SessionExited == sessionPc = "exited"

\* The codes of the failures a command can end with.
FailureCodes ==
    {"NOT_AUTHENTICATED", "TOKEN_EXPIRED", "invalid_heading", "invalid_role",
     "table_not_found", "Aborted", "Exception", "HttpError"}

\* Something went wrong: a failure was written, a service call did not end
\* ok, or the confirmation was declined.
SessionFailed ==
    \/ \E i \in 1..Len(printed) : printed[i].code \in FailureCodes
    \/ \E i \in 1..Len(issued) : issued[i].result # "ok"
    \/ consent = Some(FALSE)

\* The command's action was carried out: its arguments were accepted, its
\* consent (if it needs one) was given, its service calls all ended ok and
\* the table it addresses was found.
ActionCompleted ==
    /\ RejectedArgument(session) = None
    /\ NeedsConsent(session) => consent = Some(TRUE)
    /\ issued # <<>>
    /\ \A i \in 1..Len(issued) : issued[i].result = "ok"
    /\ session.name = "table add-row" => session.valid

IsDelete == session.name = "document delete"

DeleteCalled == \E i \in 1..Len(issued) : issued[i].fn = "delete_document"

\* C25: doc delete calls the remote delete only after consent: without
\* --force it asks first, a declined confirmation ends the command with a
\* non-zero status and no delete call; with --force there is no prompt.
C25_DeleteOnlyAfterConsent ==
    IsDelete =>
        /\ DeleteCalled => session.force \/ consent = Some(TRUE)
        /\ consent = Some(FALSE) =>
              /\ ~DeleteCalled
              /\ issued = <<>>
              /\ SessionExited
              /\ exitStatus # None
              /\ exitStatus[1] # 0
        /\ session.force => consent = None

\* The confirmation was declined.
C25_Witness ==
    /\ IsDelete
    /\ ~session.force
    /\ consent = Some(FALSE)
    /\ SessionExited
    /\ exitStatus = Some(1)
    /\ issued = <<>>

\* The account the command's service calls use has a credential.
RunAsAccountHasCredential ==
    LET r == RunsAs(accounts, defaultAccount, envAccount, explicitAccount)
    IN  r.kind = "returned" /\ r.account \in credentials

\* C30: the gate of require_auth lets the command body run if and only if
\* the account used for its remote calls (the explicit account, else the
\* resolved one) has a valid credential.
C30_GateChecksRunAsAccount ==
    /\ sessionPc = "body" => RunAsAccountHasCredential
    /\ EndedWith("NOT_AUTHENTICATED") => ~RunAsAccountHasCredential

-----------------------------------------------------------------------------
(* Properties of the credential loads of one command, under SpecAuth. *)

HasLoaded == lastLoad.by # "none"

\* The refresh branch of get_credentials was taken: the loaded credential is
\* expired and has a refresh token.
RefreshAttempted(l) ==
    /\ l.load.found # None
    /\ l.load.found[1].expired
    /\ l.load.found[1].refresh_token

\* The credentials of the accounts other than `account` are what they were.
OthersKept(l, account) ==
    \A a \in AccountNames :
        a # account => l.load.store.keyring[a] = l.before.keyring[a]

\* C24: get_credentials changes the credential store in two cases only, both
\* for the account it loaded: a refresh that succeeds saves the refreshed
\* credential and returns it, a refresh that fails deletes the stored
\* credential and returns None; in every other case the store is unchanged.
C24_StoreChangesOnlyOnRefresh ==
    HasLoaded =>
        LET l == lastLoad
        IN  IF l.load.account # None /\ RefreshAttempted(l)
            THEN LET a == l.load.account[1]
                 IN  /\ l.before.keyring[a] = l.load.found
                     /\ OthersKept(l, a)
                     /\ l.load.refresh \in {Some(TRUE), Some(FALSE)}
                     /\ l.load.refresh = Some(TRUE) =>
                           /\ l.load.returned # None
                           /\ valid(l.load.returned[1])
                           /\ l.load.store.keyring[a] = l.load.returned
                           /\ l.load.store.accounts = l.before.accounts
                           /\ l.load.store.default = l.before.default
                     /\ l.load.refresh = Some(FALSE) =>
                           /\ l.load.returned = None
                           /\ l.load.store.keyring[a] = None
            ELSE /\ l.load.store = l.before
                 /\ l.load.refresh = None
                 /\ l.load.returned = l.load.found

\* A refresh failed and the credential of the loaded account was deleted.
C24_Witness ==
    /\ HasLoaded
    /\ lastLoad.load.account # None
    /\ lastLoad.load.refresh = Some(FALSE)
    /\ lastLoad.before.keyring[lastLoad.load.account[1]] # None
    /\ keyring[lastLoad.load.account[1]] = None
    /\ lastLoad.load.returned = None

=============================================================================
